---- MODULE Spec2Model ----
(***************************************************************************)
(* A model of the per-connection core of the QUIC transport (type Conn):  *)
(* packet ingest (Write), packet egress (Read), Close, the timers and the  *)
(* connection state machine.  Time is a caller-supplied clock; a zero      *)
(* time.Time is the number 0 and the clock starts at 1.                    *)
(***************************************************************************)
EXTENDS Integers, Sequences, FiniteSets, TLC

VARIABLES conn, now, last, hist

vars == <<conn, now, last, hist>>

\* ------------------------------------------------------------------ bounds
MaxTime == 4
MaxRecvPN == 1
MaxSendPN == 3
MaxEvents == 2
MaxOps == 5
MaxStreamOps == 8
MaxStreamPN == 3
MaxAckOps == 10
MaxAckPN == 4
MaxLossPN == 4
MaxLossRecvPN == 3
MaxLossBytes == 1
MaxCompletePN == 4
MaxCompleteRecvPN == 5

\* --------------------------------------------------------------- constants
stateAttempted == 0
stateHandshake == 1
stateActive == 2
stateDraining == 3
stateClosed == 4

packetSpaceInitial == 0
packetSpaceHandshake == 1
packetSpaceApplication == 2
packetSpaceCount == 3

MinInitialPacketSize == 1200
minPayloadLength == 4
MinCoalesceRoom == 96
maxCryptoFrameOverhead == 8
kPacketThreshold == 3
DisarmedTimeout == 0 - 1

Spaces == packetSpaceInitial .. (packetSpaceCount - 1)

\* Connection IDs: the local source CID and the peer's candidates; NilCID is
\* the empty byte slice.
NilCID == ""
LocalCID == "c1"
FirstDCID == "s1"
RetryCID == "s2"
PeerCID == "s3"

NoErr == ""
NoFrame == [set |-> FALSE, application |-> FALSE, errorCode |-> 0, reasonPhrase |-> ""]

\* ---------------------------------------------------------------- helpers
minInt(a, b) == IF a < b THEN a ELSE b

maxInt(a, b) == IF a > b THEN a ELSE b

\* time.Time.Add on a set (non-zero) instant
TimeAdd(t, d) == t + d

\* AEAD keys are named by the secret they were derived from.
NoKey == [kind |-> "none", cid |-> NilCID]

InitialKey(cid) == [kind |-> "initial", cid |-> cid]

TLSKey(space) == [kind |-> IF space = packetSpaceHandshake THEN "handshake" ELSE "application", cid |-> NilCID]

\* A frame as the codec decodes it.  typ names the frame kind; the other
\* fields are the ones the handlers read.
NoParams == [InitialSourceCID |-> NilCID, OriginalDestinationCID |-> NilCID, RetrySourceCID |-> NilCID, StatelessResetToken |-> FALSE, MaxIdleTimeout |-> 0]

Frame(typ) == [typ |-> typ, id |-> 0, off |-> 0, len |-> 0, fin |-> FALSE, acks |-> {}, delay |-> 0, params |-> NoParams]

isFrameAckEliciting(typ) == typ \notin {"padding", "ack", "connection_close"}

Len0(str) == IF str = "" THEN 0 ELSE 3

\* ------------------------------------------------- packet number space
\* packetNumberSpace.init: no keys, nothing sent or received, empty CRYPTO
\* substream.  cryptoSend is the set of byte ranges waiting to be sent,
\* cryptoPushed the bytes TLS has written, cryptoRecv whether the peer's
\* flight of this space has arrived.
NewSpace == [opener |-> NoKey, sealer |-> NoKey, nextPacketNumber |-> 0, ackElicited |-> FALSE, firstPacketAcked |-> FALSE, recvPacketNeedAck |-> {}, received |-> {}, cryptoSend |-> {}, cryptoPushed |-> 0, cryptoRecv |-> FALSE]

canDecrypt(sp) == sp.opener # NoKey

canEncrypt(sp) == sp.sealer # NoKey

\* ready: an ACK is owed or CRYPTO bytes wait to be sent
SpaceReady(sp) == sp.ackElicited \/ sp.cryptoSend # {}

\* reset (Retry, Version Negotiation): receive state and the CRYPTO substream
\* start over; the keys and the packet number counter stay.
SpaceReset(sp) == [sp EXCEPT !.ackElicited = FALSE, !.firstPacketAcked = FALSE, !.recvPacketNeedAck = {}, !.received = {}, !.cryptoSend = {}, !.cryptoPushed = 0, !.cryptoRecv = FALSE]

\* drop: keys zeroized, CRYPTO substream and ACK state cleared
SpaceDrop(sp) == [sp EXCEPT !.opener = NoKey, !.sealer = NoKey, !.ackElicited = FALSE, !.recvPacketNeedAck = {}, !.cryptoSend = {}, !.cryptoRecv = FALSE]

isPacketReceived(sp, pn) == pn \in sp.received

onPacketReceived(sp, pn) == [sp EXCEPT !.received = @ \cup {pn}, !.recvPacketNeedAck = @ \cup {pn}]

\* ------------------------------------------------------------ flow control
NewFlow(maxRecv, maxSend) == [sent |-> 0, maxSend |-> maxSend, recv |-> 0, maxRecv |-> maxRecv, maxRecvNext |-> maxRecv]

canRecv(f) == f.maxRecv - f.recv

canSend(f) == f.maxSend - f.sent

addRecv(f, n) == [f EXCEPT !.recv = @ + n]

setMaxSend(f, n) == [f EXCEPT !.maxSend = maxInt(@, n)]

shouldUpdateMaxRecv(f) == f.maxRecvNext # f.maxRecv /\ 2 * (f.maxRecv - f.recv) <= f.maxRecv

\* ----------------------------------------------------------- loss recovery
\* A sent packet is [pn, ackEliciting, frames].  acked and lost hold the
\* frames of packets newly acknowledged or declared lost, until the
\* connection drains them.
NewRecovery == [sent |-> [sp \in Spaces |-> {}], acked |-> [sp \in Spaces |-> <<>>], lost |-> [sp \in Spaces |-> <<>>], probes |-> 0, ptoCount |-> 0, lossDetectionTimer |-> 0, pto |-> 1]

Pow2(n) == 2 ^ n

\* PTO = smoothed RTT + max(4 x RTT variance, granularity) + max ACK delay,
\* in clock units
probeTimeout(r) == r.pto

AckElicitingInFlight(r) == \E sp \in Spaces : \E p \in r.sent[sp] : p.ackEliciting

\* the timer runs while an ack-eliciting packet is in flight
setLossDetectionTimer(r, t) == [r EXCEPT !.lossDetectionTimer = IF AckElicitingInFlight(r) THEN TimeAdd(t, probeTimeout(r) * Pow2(r.ptoCount)) ELSE 0]

RecoveryOnPacketSent(r, op, space, t) == setLossDetectionTimer([r EXCEPT !.sent[space] = @ \cup {op}], t)

SetMax(S) == CHOOSE x \in S : \A y \in S : y <= x

SetMin(S) == CHOOSE x \in S : \A y \in S : x <= y

RECURSIVE FramesOf(_)
\* the frames of a set of sent packets, in packet number order
FramesOf(pkts) == IF pkts = {} THEN <<>> ELSE LET p == CHOOSE q \in pkts : \A o \in pkts : q.pn <= o.pn IN p.frames \o FramesOf(pkts \ {p})

\* onAckReceived with the packets declared lost left in the in-flight list
onAckReceivedKeepLost(r, acks, delay, space, t) == LET newly == {p \in r.sent[space] : p.pn \in acks} IN IF newly = {} THEN r ELSE LET largest == SetMax({p.pn : p \in newly}) rest == r.sent[space] \ newly lostp == {p \in rest : p.pn + kPacketThreshold <= largest} IN setLossDetectionTimer([r EXCEPT !.sent[space] = rest, !.acked[space] = @ \o FramesOf(newly), !.lost[space] = @ \o FramesOf(lostp), !.pto = 1 + delay, !.ptoCount = 0], t)

\* onAckReceived: newly acknowledged packets leave the in-flight list and
\* their frames go to acked; unacknowledged packets kPacketThreshold or more
\* below the largest acknowledged are lost; an RTT sample moves the PTO.
onAckReceived(r, acks, delay, space, t) == LET newly == {p \in r.sent[space] : p.pn \in acks} IN IF newly = {} THEN r ELSE LET largest == SetMax({p.pn : p \in newly}) rest == r.sent[space] \ newly lostp == {p \in rest : p.pn + kPacketThreshold <= largest} IN setLossDetectionTimer([r EXCEPT !.sent[space] = rest \ lostp, !.acked[space] = @ \o FramesOf(newly), !.lost[space] = @ \o FramesOf(lostp), !.pto = 1 + delay, !.ptoCount = 0], t)

\* dropUnackedData: every record of the space goes
dropUnackedData(r, space, t) == setLossDetectionTimer([r EXCEPT !.sent[space] = {}, !.acked[space] = <<>>, !.lost[space] = <<>>, !.ptoCount = 0], t)

\* onLossDetectionTimeout: one probe when nothing is in flight and the
\* handshake is not confirmed, two otherwise; the PTO backs off
onLossDetectionTimeout(r, confirmed, t) == IF r.lossDetectionTimer = 0 \/ t < r.lossDetectionTimer THEN r ELSE setLossDetectionTimer([r EXCEPT !.ptoCount = @ + 1, !.probes = IF ~AckElicitingInFlight(r) /\ ~confirmed THEN 1 ELSE 2], t)

\* ------------------------------------------------------------ TLS adapter
\* The TLS session seen from the transport: whether the first flight was
\* produced, how far the key schedule went (level), whether the handshake is
\* complete, the peer's transport parameters once its flight carried them,
\* and the local parameters last handed to it.
CryptoLen == 300

NewHandshake == [started |-> FALSE, level |-> 0, complete |-> FALSE, hasPeerParams |-> FALSE, peerParams |-> NoParams, localParams |-> NoParams]

\* tlsHandshake.reset: a fresh session
HandshakeReset(h) == [NewHandshake EXCEPT !.localParams = h.localParams]

\* tlsHandshake.writeSpace: the latest space TLS has write keys for
HandshakeWriteSpace(c) ==
    IF c.isClient
    THEN (IF c.handshake.level >= 2 THEN packetSpaceApplication
          ELSE IF c.handshake.level = 1 THEN packetSpaceHandshake
          ELSE packetSpaceInitial)
    ELSE (IF c.handshake.level >= 1 THEN packetSpaceApplication ELSE packetSpaceInitial)

\* cryptoStream.send.push of a whole flight at the end of what was written
PushCrypto(sp, n) == [sp EXCEPT !.cryptoSend = @ \cup {[off |-> sp.cryptoPushed, len |-> n]}, !.cryptoPushed = @ + n]

\* tlsHandshake.doHandshake, client: ClientHello first; the ServerHello
\* (Initial flight) yields Handshake keys; the server's Handshake flight
\* yields Application keys, the client Finished and completion.
ClientFirstFlight(c) ==
    IF c.handshake.started THEN c
    ELSE [c EXCEPT !.handshake.started = TRUE,
                   !.packetNumberSpaces[packetSpaceInitial] = PushCrypto(@, CryptoLen)]

ClientHandshakeKeys(c) ==
    IF c.handshake.level = 0 /\ c.packetNumberSpaces[packetSpaceInitial].cryptoRecv
    THEN [c EXCEPT !.handshake.level = 1,
                   !.packetNumberSpaces[packetSpaceHandshake].opener = TLSKey(packetSpaceHandshake),
                   !.packetNumberSpaces[packetSpaceHandshake].sealer = TLSKey(packetSpaceHandshake)]
    ELSE c

ClientFinish(c) ==
    IF c.handshake.level = 1 /\ c.packetNumberSpaces[packetSpaceHandshake].cryptoRecv
    THEN [c EXCEPT !.handshake.level = 2,
                   !.handshake.complete = TRUE,
                   !.packetNumberSpaces[packetSpaceHandshake] = PushCrypto(@, CryptoLen),
                   !.packetNumberSpaces[packetSpaceApplication].opener = TLSKey(packetSpaceApplication),
                   !.packetNumberSpaces[packetSpaceApplication].sealer = TLSKey(packetSpaceApplication)]
    ELSE c

\* tlsHandshake.doHandshake, server: the ClientHello yields the ServerHello,
\* Handshake keys, the server's Handshake flight and the 1-RTT write key; the
\* client Finished yields completion and the 1-RTT read key.
ServerFirstFlight(c) ==
    IF c.handshake.level = 0 /\ c.packetNumberSpaces[packetSpaceInitial].cryptoRecv
    THEN [c EXCEPT !.handshake.started = TRUE,
                   !.handshake.level = 1,
                   !.packetNumberSpaces[packetSpaceInitial] = PushCrypto(@, CryptoLen),
                   !.packetNumberSpaces[packetSpaceHandshake] =
                       PushCrypto([@ EXCEPT !.opener = TLSKey(packetSpaceHandshake),
                                            !.sealer = TLSKey(packetSpaceHandshake)], CryptoLen),
                   !.packetNumberSpaces[packetSpaceApplication].sealer = TLSKey(packetSpaceApplication)]
    ELSE c

ServerFinish(c) ==
    IF c.handshake.level = 1 /\ c.packetNumberSpaces[packetSpaceHandshake].cryptoRecv
    THEN [c EXCEPT !.handshake.level = 2,
                   !.handshake.complete = TRUE,
                   !.packetNumberSpaces[packetSpaceApplication].opener = TLSKey(packetSpaceApplication)]
    ELSE c

TLSDoHandshake(c) ==
    IF c.isClient
    THEN ClientFinish(ClientHandshakeKeys(ClientFirstFlight(c)))
    ELSE ServerFinish(ServerFirstFlight(c))

\* -------------------------------------------------------------- connection
\* Configuration the model runs with
LocalInitialMaxData == 2
LocalInitialMaxStreamData == 3
PeerInitialMaxData == 2
PeerInitialMaxStreams == 1
LocalInitialMaxStreams == 1
IdleTimeout == 2
SupportedVersion == 1

LocalParams(scid, maxIdle) == [InitialSourceCID |-> scid, OriginalDestinationCID |-> NilCID, RetrySourceCID |-> NilCID, StatelessResetToken |-> FALSE, MaxIdleTimeout |-> maxIdle]

\* Errors are named by their transport error code
errFlowControl == "FlowControlError"
errShortBuffer == "ShortBuffer"
errInvalidToken == "InvalidToken"

deriveInitialKeyMaterial(c, cid) ==
    [c EXCEPT !.packetNumberSpaces[packetSpaceInitial].opener = InitialKey(cid),
              !.packetNumberSpaces[packetSpaceInitial].sealer = InitialKey(cid),
              !.derivedInitialSecrets = TRUE]

HandshakeSetTransportParams(c) == [c EXCEPT !.handshake.localParams = c.localParams]

\* newConn, for a valid config and CIDs within MaxCIDLength
newConnBase(isClient, odcid, maxIdle) ==
    [isClient |-> isClient,
     version |-> SupportedVersion,
     scid |-> LocalCID,
     dcid |-> NilCID,
     odcid |-> odcid,
     rscid |-> NilCID,
     token |-> "",
     packetNumberSpaces |-> [sp \in Spaces |-> NewSpace],
     streams |-> {},
     peerMaxStreamsBidi |-> 0,
     peerMaxStreamsUni |-> 0,
     localParams |-> [LocalParams(LocalCID, maxIdle) EXCEPT
                         !.OriginalDestinationCID = odcid,
                         !.RetrySourceCID = IF odcid # NilCID THEN LocalCID ELSE NilCID],
     peerParams |-> NoParams,
     handshake |-> NewHandshake,
     recovery |-> NewRecovery,
     flow |-> NewFlow(LocalInitialMaxData, 0),
     state |-> stateAttempted,
     gotPeerCID |-> FALSE,
     didRetry |-> odcid # NilCID,
     didVersionNegotiation |-> FALSE,
     ackElicitingSent |-> FALSE,
     handshakeConfirmed |-> FALSE,
     derivedInitialSecrets |-> FALSE,
     updateMaxData |-> FALSE,
     closeFrame |-> NoFrame,
     idleTimer |-> 0,
     drainingTimer |-> 0,
     events |-> <<>>,
     log |-> <<>>,
     out |-> <<>>]

newConn(isClient, odcid, maxIdle) ==
    LET c == newConnBase(isClient, odcid, maxIdle)
    IN HandshakeSetTransportParams(
           IF isClient
           THEN deriveInitialKeyMaterial([c EXCEPT !.dcid = FirstDCID], FirstDCID)
           ELSE c)

addEvent(c, e) == [c EXCEPT !.events = Append(@, e)]

\* the log callback: one entry per packet or frame event of the current call
logEvent(c, e) == [c EXCEPT !.log = Append(@, e)]

\* dropPacketSpace that leaves the recovery records of the space in place
dropPacketSpaceKeepUnacked(c, space, t) ==
    [c EXCEPT !.packetNumberSpaces[space] = SpaceDrop(@)]

dropPacketSpace(c, space, t) ==
    [c EXCEPT !.packetNumberSpaces[space] = SpaceDrop(@),
              !.recovery = dropUnackedData(@, space, t)]

\* setDraining with the deadline one PTO away instead of three
setDrainingOnePTO(c, t) ==
    IF c.drainingTimer = 0
    THEN [c EXCEPT !.drainingTimer = TimeAdd(t, probeTimeout(c.recovery))]
    ELSE c

setDraining(c, t) ==
    IF c.drainingTimer = 0
    THEN [c EXCEPT !.drainingTimer = TimeAdd(t, probeTimeout(c.recovery) * 3)]
    ELSE c

validatePeerTransportParams(c, has, p) ==
    IF ~has THEN "TransportParameterError"
    ELSE IF p.InitialSourceCID = NilCID \/ p.InitialSourceCID # c.dcid THEN "TransportParameterError"
    ELSE IF c.isClient /\ p.OriginalDestinationCID # c.odcid THEN "TransportParameterError"
    ELSE IF ~c.isClient /\ p.OriginalDestinationCID # NilCID THEN "TransportParameterError"
    ELSE IF ~c.isClient /\ p.StatelessResetToken THEN "TransportParameterError"
    ELSE IF c.rscid # NilCID /\ p.RetrySourceCID # c.rscid THEN "TransportParameterError"
    ELSE NoErr

\* Conn.doHandshake, once TLS reports completion: e is the verdict on the
\* peer's transport parameters
doHandshakeComplete(d, e) ==
    IF e # NoErr THEN [c |-> d, err |-> e]
    ELSE [c |-> [d EXCEPT !.flow = setMaxSend(@, PeerInitialMaxData),
                          !.peerMaxStreamsBidi = maxInt(@, PeerInitialMaxStreams),
                          !.peerMaxStreamsUni = maxInt(@, PeerInitialMaxStreams),
                          !.peerParams = d.handshake.peerParams,
                          !.state = stateActive],
          err |-> NoErr]

\* Conn.doHandshake, after the TLS step left the connection as d
doHandshakeStep(d) ==
    IF d.handshake.complete
    THEN doHandshakeComplete(d, validatePeerTransportParams(d, d.handshake.hasPeerParams, d.handshake.peerParams))
    ELSE [c |-> d, err |-> NoErr]

\* Conn.doHandshake; the result is [c, err]
doHandshake(c) ==
    IF c.state >= stateActive THEN [c |-> c, err |-> NoErr]
    ELSE doHandshakeStep(TLSDoHandshake(c))

\* ------------------------------------------------------------------ streams
isStreamLocal(id, isClient) == (id % 2 = 0) = isClient

isStreamBidi(id) == id % 4 < 2

StreamGet(c, id) == {st \in c.streams : st.id = id}

NewStream(id, maxRecv, maxSend) == [id |-> id, flow |-> NewFlow(maxRecv, maxSend), recvLen |-> 0, finalSize |-> 0 - 1, recvReset |-> FALSE, updateMaxData |-> FALSE, sendBuf |-> {}, sendAcked |-> {}, sendFinal |-> 0 - 1]

PutStream(c, st) == [c EXCEPT !.streams = {x \in @ : x.id # st.id} \cup {st}]

\* streamMap.create: the stream count limits of the initiating side
StreamCreateErr(c, id, local, bidi) ==
    LET limit == IF local THEN (IF bidi THEN c.peerMaxStreamsBidi ELSE c.peerMaxStreamsUni)
                 ELSE LocalInitialMaxStreams
    IN IF id \div 4 >= limit THEN "StreamLimitError" ELSE NoErr

\* getOrCreateStream that creates a stream for either side
getOrCreateStreamAnySide(c, id, local) ==
    IF StreamGet(c, id) # {} THEN [c |-> c, err |-> NoErr]
    ELSE LET bidi == isStreamBidi(id)
             e == StreamCreateErr(c, id, local, bidi)
             maxRecv == IF local THEN (IF bidi THEN LocalInitialMaxStreamData ELSE 0)
                        ELSE LocalInitialMaxStreamData
             maxSend == IF ~local /\ ~bidi THEN 0 ELSE PeerInitialMaxData
         IN IF e # NoErr THEN [c |-> c, err |-> e]
            ELSE [c |-> PutStream(c, NewStream(id, maxRecv, maxSend)), err |-> NoErr]

\* Conn.getOrCreateStream; the result is [c, err]
getOrCreateStream(c, id, local) ==
    IF StreamGet(c, id) # {} THEN [c |-> c, err |-> NoErr]
    ELSE IF local # isStreamLocal(id, c.isClient) THEN [c |-> c, err |-> "StreamStateError"]
    ELSE LET bidi == isStreamBidi(id)
             e == StreamCreateErr(c, id, local, bidi)
             maxRecv == IF local THEN (IF bidi THEN LocalInitialMaxStreamData ELSE 0)
                        ELSE LocalInitialMaxStreamData
             maxSend == IF ~local /\ ~bidi THEN 0 ELSE PeerInitialMaxData
         IN IF e # NoErr THEN [c |-> c, err |-> e]
            ELSE [c |-> PutStream(c, NewStream(id, maxRecv, maxSend)), err |-> NoErr]

TheStream(c, id) == CHOOSE st \in c.streams : st.id = id

\* Stream send side, ack: the range is acknowledged
StreamSendAck(st, off, len, fin) == [st EXCEPT !.sendAcked = @ \cup {[off |-> off, len |-> len, fin |-> fin]}]

\* Stream send side, complete: the stream was closed, its FIN was sent and
\* every byte up to its final size is acknowledged
StreamSendComplete(st) ==
    /\ st.sendFinal >= 0 /\ st.sendBuf = {}
    /\ \E r \in st.sendAcked : r.fin
    /\ \A o \in 0..(st.sendFinal - 1) : \E r \in st.sendAcked : r.off <= o /\ o < r.off + r.len

\* Stream.pushRecv: stream flow control and final size rules; [st, err]
StreamPushRecv(st, off, len, fin) ==
    LET end == off + len
    IN IF end > st.flow.maxRecv THEN [st |-> st, err |-> errFlowControl]
       ELSE IF st.finalSize >= 0 /\ (end > st.finalSize \/ (fin /\ end # st.finalSize))
            THEN [st |-> st, err |-> "FinalSizeError"]
       ELSE IF fin /\ end < st.recvLen THEN [st |-> st, err |-> "FinalSizeError"]
       ELSE [st |-> [st EXCEPT !.recvLen = maxInt(@, end),
                               !.flow.recv = maxInt(@, end),
                               !.finalSize = IF fin THEN end ELSE @],
             err |-> NoErr]

\* recvStream.reset: the bytes the final size adds to what was received
StreamRecvReset(st, finalSize) ==
    IF st.finalSize >= 0 /\ finalSize # st.finalSize THEN [st |-> st, n |-> 0, err |-> "FinalSizeError"]
    ELSE IF finalSize < st.recvLen THEN [st |-> st, n |-> 0, err |-> "FinalSizeError"]
    ELSE [st |-> [st EXCEPT !.recvReset = TRUE, !.finalSize = finalSize, !.recvLen = finalSize],
          n |-> finalSize - st.recvLen, err |-> NoErr]

\* ---------------------------------------------------------- frame handlers
\* Every handler returns [c, err]; on an error the changes made before the
\* failing step stay, as the code mutates the connection in place.
Ok(c) == [c |-> c, err |-> NoErr]

Fail(c, e) == [c |-> c, err |-> e]

logFrameProcessed(c, f) == logEvent(c, [ev |-> "frames_processed", typ |-> f.typ])

recvFramePadding(c, f) == Ok(logFrameProcessed(c, f))

recvFramePing(c, f) == Ok(logFrameProcessed(c, f))

recvFrameAck(c, f, space, t) ==
    IF f.acks = {} THEN Fail(c, "FrameEncodingError")
    ELSE LET c1 == [c EXCEPT !.recovery = onAckReceived(@, f.acks, f.delay, space, t)]
             c2 == IF ~c1.packetNumberSpaces[space].firstPacketAcked
                   THEN LET c3 == [c1 EXCEPT !.packetNumberSpaces[space].firstPacketAcked = TRUE]
                        IN IF space = packetSpaceApplication /\ c3.state = stateActive
                           THEN LET c4 == dropPacketSpace(c3, packetSpaceHandshake, t)
                                IN IF c4.isClient /\ ~c4.handshakeConfirmed
                                   THEN [c4 EXCEPT !.handshakeConfirmed = TRUE]
                                   ELSE c4
                           ELSE c3
                   ELSE c1
         IN Ok(logFrameProcessed(c2, f))

recvFrameResetStream(c, f) ==
    IF isStreamLocal(f.id, c.isClient) /\ ~isStreamBidi(f.id) THEN Fail(c, "StreamStateError")
    ELSE LET g == getOrCreateStream(c, f.id, FALSE)
         IN IF g.err # NoErr THEN g
            ELSE LET r == StreamRecvReset(TheStream(g.c, f.id), f.len)
                     c1 == PutStream(g.c, r.st)
                 IN IF r.err # NoErr THEN Fail(g.c, r.err)
                    ELSE IF canRecv(c1.flow) < r.n THEN Fail(c1, errFlowControl)
                    ELSE Ok(logFrameProcessed(
                             addEvent([c1 EXCEPT !.flow = addRecv(@, r.n)],
                                      [typ |-> "StreamReset", id |-> f.id]), f))

recvFrameStopSending(c, f) ==
    IF isStreamLocal(f.id, c.isClient) /\ StreamGet(c, f.id) = {} THEN Fail(c, "StreamStateError")
    ELSE IF ~isStreamBidi(f.id) THEN Fail(c, "StreamStateError")
    ELSE Ok(logFrameProcessed(addEvent(c, [typ |-> "StreamStopped", id |-> f.id]), f))

\* cryptoStream.pushRecv of a whole flight, with the transport parameters
\* the flight carries (ClientHello for a server, the Handshake flight for a
\* client)
CryptoPushRecv(c, f, space) ==
    LET carries == (c.isClient /\ space = packetSpaceHandshake) \/ (~c.isClient /\ space = packetSpaceInitial)
        first == ~c.packetNumberSpaces[space].cryptoRecv
        c1 == [c EXCEPT !.packetNumberSpaces[space].cryptoRecv = TRUE]
    IN IF carries /\ first /\ ~c.handshake.complete
       THEN [c1 EXCEPT !.handshake.hasPeerParams = TRUE, !.handshake.peerParams = f.params]
       ELSE c1

\* recvFrameCrypto, after doHandshake returned h
recvFrameCryptoDone(h, f) == IF h.err # NoErr THEN h ELSE Ok(logFrameProcessed(h.c, f))

recvFrameCrypto(c, f, space) == recvFrameCryptoDone(doHandshake(CryptoPushRecv(c, f, space)), f)

recvFrameNewToken(c, f) == Ok(logFrameProcessed(c, f))

\* recvFrameStream without the test of the connection's receive credit
recvFrameStreamNoCredit(c, f) ==
    IF isStreamLocal(f.id, c.isClient) /\ ~isStreamBidi(f.id) THEN Fail(c, "StreamStateError")
    ELSE LET g == getOrCreateStream(c, f.id, FALSE)
         IN IF g.err # NoErr THEN g
            ELSE LET r == StreamPushRecv(TheStream(g.c, f.id), f.off, f.len, f.fin)
                 IN IF r.err # NoErr THEN Fail(g.c, r.err)
                    ELSE Ok(logFrameProcessed(
                             addEvent([PutStream(g.c, r.st) EXCEPT !.flow = addRecv(@, f.len)],
                                      [typ |-> "StreamReadable", id |-> f.id]), f))

recvFrameStream(c, f) ==
    IF isStreamLocal(f.id, c.isClient) /\ ~isStreamBidi(f.id) THEN Fail(c, "StreamStateError")
    ELSE IF canRecv(c.flow) < f.len THEN Fail(c, errFlowControl)
    ELSE LET g == getOrCreateStream(c, f.id, FALSE)
         IN IF g.err # NoErr THEN g
            ELSE LET r == StreamPushRecv(TheStream(g.c, f.id), f.off, f.len, f.fin)
                 IN IF r.err # NoErr THEN Fail(g.c, r.err)
                    ELSE Ok(logFrameProcessed(
                             addEvent([PutStream(g.c, r.st) EXCEPT !.flow = addRecv(@, f.len)],
                                      [typ |-> "StreamReadable", id |-> f.id]), f))

recvFrameMaxData(c, f) == Ok(logFrameProcessed([c EXCEPT !.flow = setMaxSend(@, f.len)], f))

recvFrameMaxStreamData(c, f) ==
    LET g == getOrCreateStream(c, f.id, FALSE)
    IN IF g.err # NoErr THEN g
       ELSE LET st == TheStream(g.c, f.id)
            IN Ok(logFrameProcessed(PutStream(g.c, [st EXCEPT !.flow = setMaxSend(@, f.len)]), f))

recvFrameMaxStreams(c, f) ==
    Ok(logFrameProcessed(
        IF f.fin THEN [c EXCEPT !.peerMaxStreamsBidi = maxInt(@, f.len)]
        ELSE [c EXCEPT !.peerMaxStreamsUni = maxInt(@, f.len)], f))

recvFrameBlocked(c, f) == Ok(logFrameProcessed(c, f))

recvFrameConnectionClose(c, f, t) ==
    Ok(logFrameProcessed(setDraining([c EXCEPT !.state = stateDraining], t), f))

recvFrameHandshakeDone(c, f, t) ==
    IF ~c.isClient THEN Fail(c, "ProtocolViolation")
    ELSE Ok(logFrameProcessed(
             IF c.state = stateActive /\ ~c.handshakeConfirmed
             THEN [dropPacketSpace(c, packetSpaceHandshake, t) EXCEPT !.handshakeConfirmed = TRUE]
             ELSE c, f))

\* the frame type switch of recvFrames
recvFrame(c, f, space, t) ==
    CASE f.typ = "padding" -> recvFramePadding(c, f)
      [] f.typ = "ping" -> recvFramePing(c, f)
      [] f.typ = "ack" -> recvFrameAck(c, f, space, t)
      [] f.typ = "reset_stream" -> recvFrameResetStream(c, f)
      [] f.typ = "stop_sending" -> recvFrameStopSending(c, f)
      [] f.typ = "crypto" -> recvFrameCrypto(c, f, space)
      [] f.typ = "new_token" -> recvFrameNewToken(c, f)
      [] f.typ = "stream" -> recvFrameStream(c, f)
      [] f.typ = "max_data" -> recvFrameMaxData(c, f)
      [] f.typ = "max_stream_data" -> recvFrameMaxStreamData(c, f)
      [] f.typ = "max_streams" -> recvFrameMaxStreams(c, f)
      [] f.typ \in {"data_blocked", "stream_data_blocked", "streams_blocked"} -> recvFrameBlocked(c, f)
      [] f.typ = "connection_close" -> recvFrameConnectionClose(c, f, t)
      [] f.typ = "handshake_done" -> recvFrameHandshakeDone(c, f, t)
      [] OTHER -> Fail(c, "FrameEncodingError")

RECURSIVE recvFramesLoop(_, _, _, _, _), recvFramesNext(_, _, _, _, _)
recvFramesLoop(c, frames, space, t, ackElicited) ==
    IF frames = <<>>
    THEN Ok(IF ackElicited THEN [c EXCEPT !.packetNumberSpaces[space].ackElicited = TRUE] ELSE c)
    ELSE recvFramesNext(recvFrame(c, Head(frames), space, t), frames, space, t, ackElicited)

\* the loop of Conn.recvFrames after the handler of the first frame returned r
recvFramesNext(r, frames, space, t, ackElicited) ==
    IF r.err # NoErr THEN r
    ELSE recvFramesLoop(r.c, Tail(frames), space, t,
                        ackElicited \/ isFrameAckEliciting(Head(frames).typ))

recvFrames(c, frames, space, t) == recvFramesLoop(c, frames, space, t, FALSE)

\* ----------------------------------------------------------- packet ingest
\* A datagram is a sequence of packets; every packet is one unit long, so
\* len(b) is the number of packets left.  A packet is [typ, dcid, scid, pn,
\* key, frames, token, versions, tagOK]: key names the AEAD key it was
\* sealed with, tagOK whether a Retry's integrity tag verifies.
Packet(typ, dcid, scid, pn, key, frames) == [typ |-> typ, dcid |-> dcid, scid |-> scid, pn |-> pn, key |-> key, frames |-> frames, token |-> "", versions |-> <<>>, tagOK |-> TRUE]

Res(c, n, e) == [c |-> c, n |-> n, err |-> e]

logPacket(c, ev, p) == logEvent(c, [ev |-> ev, typ |-> p.typ])

versionSupported(v) == v = SupportedVersion

RECURSIVE FirstSupported(_)
FirstSupported(vs) == IF vs = <<>> THEN 0 ELSE IF versionSupported(Head(vs)) THEN Head(vs) ELSE FirstSupported(Tail(vs))

\* Conn.processAckedPackets: the per-kind effect of each acknowledged frame
RECURSIVE drainAckedFrames(_, _, _)
drainAckedFrames(c, frames, space) ==
    IF frames = <<>> THEN c
    ELSE LET f == Head(frames)
             c1 == CASE f.typ = "ack" ->
                           [c EXCEPT !.packetNumberSpaces[space].recvPacketNeedAck = {pn \in @ : pn > SetMax(f.acks)}]
                      [] f.typ = "crypto" -> c
                      [] f.typ = "stream" ->
                           (IF StreamGet(c, f.id) # {}
                            THEN LET st == StreamSendAck(TheStream(c, f.id), f.off, f.len, f.fin)
                                 IN IF StreamSendComplete(st)
                                    THEN addEvent(PutStream(c, st), [typ |-> "StreamComplete", id |-> f.id])
                                    ELSE PutStream(c, st)
                            ELSE c)
                      [] f.typ = "max_data" -> [c EXCEPT !.updateMaxData = FALSE]
                      [] OTHER -> c
         IN drainAckedFrames(c1, Tail(frames), space)

processAckedPackets(c, space) ==
    [drainAckedFrames(c, c.recovery.acked[space], space) EXCEPT !.recovery.acked[space] = <<>>]

\* Conn.recvPacket, the packet marked received and the idle timer restarted
recvPacketMark(c, p, space, t) ==
    [c EXCEPT !.packetNumberSpaces[space] = onPacketReceived(@, p.pn),
              !.idleTimer = IF c.localParams.MaxIdleTimeout > 0
                            THEN TimeAdd(t, c.localParams.MaxIdleTimeout) ELSE @]

\* Conn.recvPacket, the server dropping the Initial space after a client's
\* Handshake packet
recvPacketVerified(c, space, t) ==
    [(IF ~c.isClient /\ space = packetSpaceHandshake /\ c.state = stateAttempted
      THEN dropPacketSpace([c EXCEPT !.state = stateHandshake], packetSpaceInitial, t)
      ELSE c) EXCEPT !.ackElicitingSent = FALSE]

\* Conn.recvPacket, after recvFrames returned r
recvPacketFrames(r, p, space, t) ==
    IF r.err # NoErr THEN Res(r.c, 0, r.err)
    ELSE Res(recvPacketVerified(recvPacketMark(processAckedPackets(r.c, space), p, space, t), space, t), 1, NoErr)

\* recvPacket that does not look whether the packet number was received
recvPacketAgain(c, b, p, space, t) ==
    IF ~canDecrypt(c.packetNumberSpaces[space]) THEN Res(logPacket(c, "packet_dropped", p), Len(b), NoErr)
    ELSE IF p.key # c.packetNumberSpaces[space].opener THEN Res(c, 0, "DecryptError")
    ELSE recvPacketFrames(recvFrames(logPacket(c, "packet_received", p), p.frames, space, t), p, space, t)

recvPacket(c, b, p, space, t) ==
    IF ~canDecrypt(c.packetNumberSpaces[space]) THEN Res(logPacket(c, "packet_dropped", p), Len(b), NoErr)
    ELSE IF p.key # c.packetNumberSpaces[space].opener THEN Res(c, 0, "DecryptError")
    ELSE IF isPacketReceived(c.packetNumberSpaces[space], p.pn) THEN Res(logPacket(c, "packet_dropped", p), 1, NoErr)
    ELSE recvPacketFrames(recvFrames(logPacket(c, "packet_received", p), p.frames, space, t), p, space, t)

\* recvPacketVersionNegotiation that negotiates again after it did once
recvPacketVersionNegotiationTwice(c, b, p, t) ==
    IF ~c.isClient \/ c.state # stateAttempted
       \/ p.dcid # c.scid \/ p.scid # c.dcid
    THEN Res(logPacket(c, "packet_dropped", p), Len(b), NoErr)
    ELSE LET newVersion == FirstSupported(p.versions)
         IN IF newVersion = 0 THEN Res(c, 0, "InternalError")
            ELSE Res(logPacket(HandshakeSetTransportParams(
                         [c EXCEPT !.version = newVersion,
                                   !.didVersionNegotiation = TRUE,
                                   !.gotPeerCID = FALSE,
                                   !.recovery = dropUnackedData(@, packetSpaceInitial, t),
                                   !.packetNumberSpaces[packetSpaceInitial] = SpaceReset(@),
                                   !.handshake = HandshakeReset(@)]), "packet_received", p),
                     Len(b), NoErr)

recvPacketVersionNegotiation(c, b, p, t) ==
    IF ~c.isClient \/ c.didVersionNegotiation \/ c.state # stateAttempted
       \/ p.dcid # c.scid \/ p.scid # c.dcid
    THEN Res(logPacket(c, "packet_dropped", p), Len(b), NoErr)
    ELSE LET newVersion == FirstSupported(p.versions)
         IN IF newVersion = 0 THEN Res(c, 0, "InternalError")
            ELSE Res(logPacket(HandshakeSetTransportParams(
                         [c EXCEPT !.version = newVersion,
                                   !.didVersionNegotiation = TRUE,
                                   !.gotPeerCID = FALSE,
                                   !.recovery = dropUnackedData(@, packetSpaceInitial, t),
                                   !.packetNumberSpaces[packetSpaceInitial] = SpaceReset(@),
                                   !.handshake = HandshakeReset(@)]), "packet_received", p),
                     Len(b), NoErr)

\* recvPacketRetry that takes a Retry after one was accepted
recvPacketRetryTwice(c, b, p, t) ==
    IF ~c.isClient \/ c.state # stateAttempted
       \/ p.dcid # c.scid \/ p.scid = c.dcid
    THEN Res(logPacket(c, "packet_dropped", p), Len(b), NoErr)
    ELSE IF p.token = "" \/ ~p.tagOK THEN Res(c, 0, errInvalidToken)
    ELSE Res(logPacket(HandshakeSetTransportParams(
                 [deriveInitialKeyMaterial([c EXCEPT !.didRetry = TRUE,
                                                     !.token = p.token,
                                                     !.odcid = c.dcid,
                                                     !.dcid = p.scid,
                                                     !.rscid = p.scid], p.scid)
                     EXCEPT !.gotPeerCID = FALSE,
                            !.recovery = dropUnackedData(@, packetSpaceInitial, t),
                            !.packetNumberSpaces[packetSpaceInitial] = SpaceReset(@),
                            !.handshake = HandshakeReset(@)]), "packet_received", p),
             Len(b), NoErr)

\* recvPacketRetry that verifies neither token nor integrity tag
recvPacketRetryUnverified(c, b, p, t) ==
    IF ~c.isClient \/ c.didRetry \/ c.state # stateAttempted
       \/ p.dcid # c.scid \/ p.scid = c.dcid
    THEN Res(logPacket(c, "packet_dropped", p), Len(b), NoErr)
    ELSE Res(logPacket(HandshakeSetTransportParams(
                 [deriveInitialKeyMaterial([c EXCEPT !.didRetry = TRUE,
                                                     !.token = p.token,
                                                     !.odcid = c.dcid,
                                                     !.dcid = p.scid,
                                                     !.rscid = p.scid], p.scid)
                     EXCEPT !.gotPeerCID = FALSE,
                            !.recovery = dropUnackedData(@, packetSpaceInitial, t),
                            !.packetNumberSpaces[packetSpaceInitial] = SpaceReset(@),
                            !.handshake = HandshakeReset(@)]), "packet_received", p),
             Len(b), NoErr)

recvPacketRetry(c, b, p, t) ==
    IF ~c.isClient \/ c.didRetry \/ c.state # stateAttempted
       \/ p.dcid # c.scid \/ p.scid = c.dcid
    THEN Res(logPacket(c, "packet_dropped", p), Len(b), NoErr)
    ELSE IF p.token = "" \/ ~p.tagOK THEN Res(c, 0, errInvalidToken)
    ELSE Res(logPacket(HandshakeSetTransportParams(
                 [deriveInitialKeyMaterial([c EXCEPT !.didRetry = TRUE,
                                                     !.token = p.token,
                                                     !.odcid = c.dcid,
                                                     !.dcid = p.scid,
                                                     !.rscid = p.scid], p.scid)
                     EXCEPT !.gotPeerCID = FALSE,
                            !.recovery = dropUnackedData(@, packetSpaceInitial, t),
                            !.packetNumberSpaces[packetSpaceInitial] = SpaceReset(@),
                            !.handshake = HandshakeReset(@)]), "packet_received", p),
             Len(b), NoErr)

\* Conn.recvPacketInitial, the first Initial packet: the original DCID is
\* fixed
recvPacketInitialODCID(c, p) ==
    IF c.isClient
    THEN (IF c.odcid = NilCID THEN [c EXCEPT !.odcid = c.dcid] ELSE c)
    ELSE (IF ~c.didRetry
          THEN HandshakeSetTransportParams(
                   [c EXCEPT !.odcid = p.dcid, !.localParams.OriginalDestinationCID = p.dcid])
          ELSE c)

\* Conn.recvPacketInitial, the peer's CID replacing the DCID.  The DCID is
\* overwritten in place; rscid, set by a Retry, is a slice of the same
\* array.
recvPacketInitialPeerCID(c, p) ==
    IF c.gotPeerCID THEN c
    ELSE [recvPacketInitialODCID(c, p) EXCEPT !.dcid = p.scid,
                                              !.rscid = IF @ # NilCID THEN p.scid ELSE @,
                                              !.gotPeerCID = TRUE]

recvPacketInitial(c, b, p, t) ==
    IF c.gotPeerCID /\ (p.dcid # c.scid \/ p.scid # c.dcid)
    THEN Res(logPacket(c, "packet_dropped", p), Len(b), NoErr)
    ELSE recvPacket(recvPacketInitialPeerCID(
                        IF ~c.derivedInitialSecrets THEN deriveInitialKeyMaterial(c, p.dcid) ELSE c, p),
                    b, p, packetSpaceInitial, t)

recvPacketHandshake(c, b, p, t) ==
    IF p.dcid # c.scid \/ p.scid # c.dcid
    THEN Res(logPacket(c, "packet_dropped", p), Len(b), NoErr)
    ELSE recvPacket(c, b, p, packetSpaceHandshake, t)

recvPacketShort(c, b, p, t) ==
    IF p.dcid # c.scid
    THEN Res(logPacket(c, "packet_dropped", p), Len(b), NoErr)
    ELSE recvPacket(c, b, p, packetSpaceApplication, t)

\* Conn.recv: one packet off the front of b
recv(c, b, t) ==
    LET p == Head(b)
    IN CASE p.typ = "malformed" -> Res(c, 0, "HeaderDecodeError")
         [] p.typ = "version_negotiation" -> recvPacketVersionNegotiation(c, b, p, t)
         [] p.typ = "retry" -> recvPacketRetry(c, b, p, t)
         [] p.typ = "initial" -> recvPacketInitial(c, b, p, t)
         [] p.typ = "zerortt" -> Res(c, 0, "InternalError")
         [] p.typ = "handshake" -> recvPacketHandshake(c, b, p, t)
         [] p.typ = "short" -> recvPacketShort(c, b, p, t)

checkTimeout(c, t) ==
    IF c.drainingTimer # 0 /\ t >= c.drainingTimer THEN [c EXCEPT !.state = stateClosed]
    ELSE IF c.idleTimer # 0 /\ t >= c.idleTimer THEN [c EXCEPT !.state = stateClosed]
    ELSE [c EXCEPT !.recovery = onLossDetectionTimeout(@, c.handshakeConfirmed, t)]

RECURSIVE WriteLoop(_, _, _, _)
\* the loop of Conn.Write after recv returned r
WriteNext(r, b, n, t) ==
    IF r.err # NoErr THEN Res(r.c, n, r.err)
    ELSE WriteLoop(r.c, SubSeq(b, r.n + 1, Len(b)), n + r.n, t)

\* the loop of Conn.Write stopping only for a set draining timer, not for a
\* staged close frame
WriteLoopDrainingOnly(c, b, n, t) ==
    IF b = <<>> THEN Res(checkTimeout(c, t), n, NoErr)
    ELSE IF c.drainingTimer # 0 THEN Res(checkTimeout(c, t), n, NoErr)
    ELSE WriteNext(recv(c, b, t), b, n, t)

\* the loop of Conn.Write over the packets of b, n consumed so far
WriteLoop(c, b, n, t) ==
    IF b = <<>> THEN Res(checkTimeout(c, t), n, NoErr)
    ELSE IF c.drainingTimer # 0 \/ c.closeFrame.set THEN Res(checkTimeout(c, t), n, NoErr)
    ELSE WriteNext(recv(c, b, t), b, n, t)

\* Conn.Write
ConnWrite(c, b, t) == WriteLoop([c EXCEPT !.log = <<>>], b, 0, t)

\* ----------------------------------------------------------- packet egress
\* Encoded sizes, in bytes.  CIDs are 8 bytes long, packet numbers 4, the
\* AEAD tag 16.
CIDLen == 8
AEADOverhead == 16
TokenLen(tok) == IF tok = "" THEN 0 ELSE 8

HeaderLen(c, space) ==
    IF space = packetSpaceInitial THEN 1 + 4 + 1 + CIDLen + 1 + CIDLen + 1 + TokenLen(c.token) + 2 + 4
    ELSE IF space = packetSpaceHandshake THEN 1 + 4 + 1 + CIDLen + 1 + CIDLen + 2 + 4
    ELSE 1 + CIDLen + 4

FrameLen(f) ==
    CASE f.typ = "connection_close" -> 4 + f.len
      [] f.typ = "ack" -> 5
      [] f.typ = "crypto" -> 4 + f.len
      [] f.typ = "stream" -> 4 + f.len
      [] f.typ = "max_data" -> 5
      [] f.typ = "max_stream_data" -> 6
      [] f.typ = "padding" -> f.len
      [] OTHER -> 1

maxPacketSize(c) == MinInitialPacketSize

packetTypeFromSpace(space) ==
    IF space = packetSpaceInitial THEN "initial"
    ELSE IF space = packetSpaceHandshake THEN "handshake" ELSE "short"

StreamsHasFlushable(c) == \E st \in c.streams : st.sendBuf # {}

writeSpaceLow(c) ==
    LET ok == {i \in Spaces : ~(i = packetSpaceApplication /\ c.state < stateActive)
                              /\ (SpaceReady(c.packetNumberSpaces[i]) \/ Len(c.recovery.lost[i]) > 0)}
    IN IF ok # {} THEN SetMin(ok)
       ELSE IF c.state >= stateActive /\ StreamsHasFlushable(c) THEN packetSpaceApplication
       ELSE packetSpaceCount

\* Conn.writeSpace
writeSpace(c) ==
    IF c.closeFrame.set \/ c.recovery.probes > 0 THEN HandshakeWriteSpace(c)
    ELSE writeSpaceLow(c)

\* Conn.processLostPackets: the per-kind reinjection of each lost frame
RECURSIVE drainLostFrames(_, _, _)
drainLostFrames(c, frames, space) ==
    IF frames = <<>> THEN c
    ELSE LET f == Head(frames)
             c1 == CASE f.typ = "ack" -> [c EXCEPT !.packetNumberSpaces[space].ackElicited = TRUE]
                      [] f.typ = "crypto" ->
                           [c EXCEPT !.packetNumberSpaces[space].cryptoSend = @ \cup {[off |-> f.off, len |-> f.len]}]
                      [] f.typ = "stream" ->
                           (IF StreamGet(c, f.id) # {}
                            THEN PutStream(c, [TheStream(c, f.id) EXCEPT !.sendBuf = @ \cup {[off |-> f.off, len |-> f.len, fin |-> f.fin]}])
                            ELSE c)
                      [] f.typ = "handshake_done" -> [c EXCEPT !.handshakeConfirmed = FALSE]
                      [] OTHER -> c
         IN drainLostFrames(c1, Tail(frames), space)

processLostPackets(c, space) ==
    [drainLostFrames(c, c.recovery.lost[space], space) EXCEPT !.recovery.lost[space] = <<>>]

\* The packet under construction: [c, frames, payloadLen, left]
Build(c, frames, payloadLen, left) == [c |-> c, frames |-> frames, payloadLen |-> payloadLen, left |-> left]

AddFrame(b, c, f) == Build(c, Append(b.frames, f), b.payloadLen + FrameLen(f), b.left - FrameLen(f))

CloseFrameOf(c) == [Frame("connection_close") EXCEPT !.id = c.closeFrame.errorCode, !.fin = c.closeFrame.application, !.len = Len0(c.closeFrame.reasonPhrase)]

\* the close frame added without starting the draining period
sendCloseNoDraining(b, t) ==
    IF b.c.closeFrame.set /\ b.left >= FrameLen(CloseFrameOf(b.c))
    THEN AddFrame(b, b.c, CloseFrameOf(b.c))
    ELSE b

\* Conn.sendFrames, the CONNECTION_CLOSE part
sendClose(b, t) ==
    IF b.c.closeFrame.set /\ b.left >= FrameLen(CloseFrameOf(b.c))
    THEN AddFrame(b, setDraining(b.c, t), CloseFrameOf(b.c))
    ELSE b

sendAck(b, space) ==
    LET pnSpace == b.c.packetNumberSpaces[space]
        f == [Frame("ack") EXCEPT !.acks = pnSpace.recvPacketNeedAck]
    IN IF pnSpace.ackElicited /\ b.left >= FrameLen(f)
       THEN AddFrame(b, [b.c EXCEPT !.packetNumberSpaces[space].ackElicited = FALSE], f)
       ELSE b

\* sendFrameCrypto with cryptoStream.popSend: the lowest pending range, cut
\* to the room left
sendCrypto(b, space) ==
    LET pend == b.c.packetNumberSpaces[space].cryptoSend
        room == b.left - maxCryptoFrameOverhead
    IN IF room > 0 /\ pend # {}
       THEN LET r == CHOOSE x \in pend : \A y \in pend : x.off <= y.off
                n == minInt(room, r.len)
                rest == IF n < r.len THEN {[off |-> r.off + n, len |-> r.len - n]} ELSE {}
                f == [Frame("crypto") EXCEPT !.off = r.off, !.len = n]
            IN AddFrame(b, [b.c EXCEPT !.packetNumberSpaces[space].cryptoSend = (@ \ {r}) \cup rest], f)
       ELSE b

\* sendHandshakeDone that does not record the frame as sent
sendHandshakeDoneUnrecorded(b) ==
    IF ~(b.c.isClient \/ b.c.state # stateActive \/ b.c.handshakeConfirmed) /\ b.left >= 1
    THEN AddFrame(b, b.c, Frame("handshake_done"))
    ELSE b

sendHandshakeDone(b) ==
    IF ~(b.c.isClient \/ b.c.state # stateActive \/ b.c.handshakeConfirmed) /\ b.left >= 1
    THEN AddFrame(b, [b.c EXCEPT !.handshakeConfirmed = TRUE], Frame("handshake_done"))
    ELSE b

sendMaxData(b) ==
    LET f == [Frame("max_data") EXCEPT !.len = b.c.flow.maxRecvNext]
    IN IF (b.c.updateMaxData \/ shouldUpdateMaxRecv(b.c.flow)) /\ b.left >= FrameLen(f)
       THEN AddFrame(b, [b.c EXCEPT !.updateMaxData = TRUE, !.flow.maxRecv = b.c.flow.maxRecvNext], f)
       ELSE b

sendPing(b) ==
    IF b.c.recovery.probes > 0 /\ b.left >= 1
    THEN AddFrame(b, [b.c EXCEPT !.recovery.probes = @ - 1], Frame("ping"))
    ELSE b

maxStreamFrameOverhead == 12

\* sendFrameStream with Stream.popSend, for one stream: the lowest pending
\* range, cut to the room left, the connection credit and the stream credit
sendStream(b, st) ==
    LET room == minInt(b.left - maxStreamFrameOverhead, canSend(b.c.flow))
        n0 == minInt(room, canSend(st.flow))
    IN IF room > 0 /\ st.sendBuf # {}
       THEN LET r == CHOOSE x \in st.sendBuf : \A y \in st.sendBuf : x.off <= y.off
                n == minInt(n0, r.len)
                rest == IF n < r.len THEN {[off |-> r.off + n, len |-> r.len - n, fin |-> r.fin]} ELSE {}
                f == [Frame("stream") EXCEPT !.id = st.id, !.off = r.off, !.len = n, !.fin = r.fin /\ n = r.len]
                st1 == [st EXCEPT !.sendBuf = (@ \ {r}) \cup rest, !.flow.sent = maxInt(@, r.off + n)]
            IN IF n > 0
               THEN AddFrame(b, [PutStream(b.c, st1) EXCEPT !.flow.sent = @ + n], f)
               ELSE b
       ELSE b

sendMaxStreamData(b, st) ==
    LET f == [Frame("max_stream_data") EXCEPT !.id = st.id, !.len = st.flow.maxRecvNext]
    IN IF st.updateMaxData /\ b.left >= FrameLen(f)
       THEN AddFrame(b, PutStream(b.c, [st EXCEPT !.flow.maxRecv = st.flow.maxRecvNext]), f)
       ELSE b

RECURSIVE sendPerStream(_, _, _)
\* the loops of sendFrames over the stream map, kind "max_stream_data" or
\* "stream", taken in stream ID order
sendPerStream(b, ids, kind) ==
    IF ids = {} THEN b
    ELSE LET id == SetMin(ids)
             st == TheStream(b.c, id)
         IN sendPerStream(IF kind = "stream" THEN sendStream(b, st) ELSE sendMaxStreamData(b, st),
                          ids \ {id}, kind)

StreamIDs(c) == {st.id : st \in c.streams}

\* Conn.sendFrames
sendFrames(c, space, left, t) ==
    LET b0 == sendClose(Build(c, <<>>, 0, left), t)
    IN IF b0.c.state < stateDraining
       THEN LET b1 == sendCrypto(sendAck(b0, space), space)
                b2 == IF space = packetSpaceApplication
                      THEN LET b3 == sendMaxData(sendHandshakeDone(b1))
                               b4 == sendPerStream(b3, StreamIDs(b3.c), "max_stream_data")
                           IN sendPerStream(b4, StreamIDs(b4.c), "stream")
                      ELSE b1
            IN sendPing(b2)
       ELSE b0

\* onPacketSent without the step to the next packet number
onPacketSentSameNumber(c, op, space, t) ==
    LET c1 == [c EXCEPT !.recovery = RecoveryOnPacketSent(@, op, space, t)]
    IN IF op.ackEliciting
       THEN [c1 EXCEPT !.idleTimer = IF ~c.ackElicitingSent /\ c.localParams.MaxIdleTimeout > 0
                                     THEN TimeAdd(t, c.localParams.MaxIdleTimeout) ELSE @,
                       !.ackElicitingSent = TRUE]
       ELSE c1

\* Conn.onPacketSent
onPacketSent(c, op, space, t) ==
    LET c1 == [c EXCEPT !.recovery = RecoveryOnPacketSent(@, op, space, t),
                        !.packetNumberSpaces[space].nextPacketNumber = @ + 1]
    IN IF op.ackEliciting
       THEN [c1 EXCEPT !.idleTimer = IF ~c.ackElicitingSent /\ c.localParams.MaxIdleTimeout > 0
                                     THEN TimeAdd(t, c.localParams.MaxIdleTimeout) ELSE @,
                       !.ackElicitingSent = TRUE]
       ELSE c1

PaddingFrame(n) == [Frame("padding") EXCEPT !.len = n]

\* Conn.send, the padding of a client's Initial packet to the minimum size
InitialPadding(c, space, pktOverhead, payloadLen) ==
    IF c.isClient /\ space = packetSpaceInitial
    THEN maxInt(0, MinInitialPacketSize - pktOverhead - payloadLen) ELSE 0

\* Conn.send, the padding of a payload too short for header protection
MinPadding(payloadLen) == IF payloadLen < minPayloadLength THEN minPayloadLength - payloadLen ELSE 0

PaddedFrames(frames, pad1, pad2) ==
    frames \o (IF pad1 > 0 THEN <<PaddingFrame(pad1)>> ELSE <<>>)
           \o (IF pad2 > 0 THEN <<PaddingFrame(pad2)>> ELSE <<>>)

\* the outgoingPacket handed to recovery
OutgoingPacket(pn, frames) ==
    [pn |-> pn,
     ackEliciting |-> \E i \in 1..Len(frames) : isFrameAckEliciting(frames[i].typ),
     frames |-> frames]

\* Conn.send, the client dropping the Initial space after its first
\* Handshake packet
sendDropInitial(c, space, t) ==
    IF c.isClient /\ space = packetSpaceHandshake /\ c.state = stateAttempted
    THEN dropPacketSpace([c EXCEPT !.state = stateHandshake], packetSpaceInitial, t)
    ELSE c

\* Conn.send, the encoded packet of n bytes: registered, written and logged
\* (logPacketSent reports the packet and then each of its frames)
sendPacket(c, space, frames, n, t) ==
    sendDropInitial(
        [onPacketSent(c, OutgoingPacket(c.packetNumberSpaces[space].nextPacketNumber, frames), space, t)
            EXCEPT !.out = Append(@, [space |-> space, pn |-> c.packetNumberSpaces[space].nextPacketNumber,
                                      frames |-> frames, size |-> n]),
                   !.log = Append(@, [ev |-> "packet_sent", typ |-> packetTypeFromSpace(space)])
                                \o [i \in 1..Len(frames) |-> [ev |-> "frames_processed", typ |-> frames[i].typ]]],
        space, t)

\* Conn.send, the frames b chosen and the paddings known
sendPadded(b, space, pktOverhead, pad1, pad2, t) ==
    IF pad1 > b.left THEN Res(b.c, 0, errShortBuffer)
    ELSE IF pad2 > b.left - pad1 THEN Res(b.c, 0, errShortBuffer)
    ELSE Res(sendPacket(b.c, space, PaddedFrames(b.frames, pad1, pad2),
                        pktOverhead + b.payloadLen + pad1 + pad2, t),
             pktOverhead + b.payloadLen + pad1 + pad2, NoErr)

\* Conn.send, the packet b with its Initial padding pad1
sendBuilt(b, space, pktOverhead, pad1, t) ==
    IF b.frames = <<>> THEN Res(b.c, 0, NoErr)
    ELSE sendPadded(b, space, pktOverhead, pad1, MinPadding(b.payloadLen + pad1), t)

\* Conn.send, after sendFrames returned the packet b: the Initial padding
sendFilled(b, space, pktOverhead, t) ==
    sendBuilt(b, space, pktOverhead, InitialPadding(b.c, space, pktOverhead, b.payloadLen), t)

\* Conn.send with left bytes of payload room
sendRoom(c, space, pktOverhead, left, t) ==
    IF left <= minPayloadLength THEN Res(c, 0, errShortBuffer)
    ELSE sendFilled(sendFrames(processLostPackets(c, space), space, left, t), space, pktOverhead, t)

\* Conn.send: one packet of `space` into a buffer of bufLen bytes; the result
\* is [c, n, err], the packet appended to c.out
send(c, bufLen, space, t) ==
    IF ~canEncrypt(c.packetNumberSpaces[space]) THEN Res(c, 0, "InternalError")
    ELSE sendRoom(c, space, HeaderLen(c, space) + AEADOverhead,
                  minInt(maxPacketSize(c), bufLen) - (HeaderLen(c, space) + AEADOverhead), t)

\* Conn.Read, the second packet of a coalesced datagram: r is the first
\* send's result, m the second's
ReadCoalesced(r, m) ==
    IF m.err # NoErr THEN Res(m.c, 0, m.err) ELSE Res(m.c, r.n + m.n, NoErr)

\* Conn.Read after the first send returned r, with avail bytes of datagram
\* and nextSpace the space to write next
ReadNext(r, space, avail, nextSpace, t) ==
    IF r.err # NoErr THEN Res(r.c, 0, r.err)
    ELSE IF space < packetSpaceApplication /\ avail - r.n >= MinCoalesceRoom
            /\ nextSpace < packetSpaceCount /\ nextSpace > space
    THEN ReadCoalesced(r, send(r.c, avail - r.n, nextSpace, t))
    ELSE r

ReadSend(r, space, bufLen, t) == ReadNext(r, space, minInt(maxPacketSize(r.c), bufLen), writeSpace(r.c), t)

\* Conn.Read with the space to write in chosen
ReadSpace(c, space, bufLen, t) ==
    IF space = packetSpaceCount THEN Res(c, 0, NoErr)
    ELSE ReadSend(send(c, bufLen, space, t), space, bufLen, t)

\* Conn.Read after doHandshake returned h
ReadHandshake(h, bufLen, t) ==
    IF h.err # NoErr THEN Res(h.c, 0, h.err)
    ELSE ReadSpace(h.c, writeSpace(h.c), bufLen, t)

\* Conn.Read into a buffer of bufLen bytes
ReadBody(c, bufLen, t) ==
    IF c.drainingTimer # 0 THEN Res(c, 0, NoErr)
    ELSE ReadHandshake(doHandshake(c), bufLen, t)

ConnRead(c, bufLen, t) == ReadBody([c EXCEPT !.log = <<>>, !.out = <<>>], bufLen, t)

\* Conn.Timeout, with time.Until taken at t
Timeout(c, t) ==
    IF c.state = stateClosed THEN DisarmedTimeout
    ELSE LET deadline == IF c.drainingTimer # 0 THEN c.drainingTimer
                         ELSE IF c.recovery.lossDetectionTimer # 0 THEN c.recovery.lossDetectionTimer
                         ELSE c.idleTimer
         IN IF deadline = 0 THEN DisarmedTimeout ELSE maxInt(0, deadline - t)

\* Close without the check for an earlier close
ConnCloseAlways(c, app, errCode, reason) ==
    [c EXCEPT !.closeFrame = [set |-> TRUE, application |-> app, errorCode |-> errCode, reasonPhrase |-> reason],
              !.state = stateDraining]

\* Conn.Close
ConnClose(c, app, errCode, reason) ==
    IF c.drainingTimer # 0 \/ c.closeFrame.set THEN c
    ELSE [c EXCEPT !.closeFrame = [set |-> TRUE, application |-> app, errorCode |-> errCode, reasonPhrase |-> reason],
                   !.state = stateDraining]

IsEstablished(c) == c.state = stateActive

IsClosed(c) == c.state = stateClosed

\* --------------------------------------------------------------- the peer
\* What the peer and the network can put in front of Write: packets with the
\* CIDs and keys a correct peer would use, and the wrong ones.
PeerStreamID(c) == IF c.isClient THEN 1 ELSE 0

LocalUniStreamID(c) == IF c.isClient THEN 2 ELSE 3

GoodParams(c) == [NoParams EXCEPT !.InitialSourceCID = PeerCID,
                                  !.OriginalDestinationCID = IF c.isClient THEN FirstDCID ELSE NilCID,
                                  !.RetrySourceCID = IF c.isClient /\ c.rscid # NilCID THEN RetryCID ELSE NilCID]

BadParams == [NoParams EXCEPT !.InitialSourceCID = RetryCID]

CryptoFrame(params) == [Frame("crypto") EXCEPT !.len = CryptoLen, !.params = params]

AckFrame(acks, delay) == [Frame("ack") EXCEPT !.acks = acks, !.delay = delay]

StreamFrame(id, off, len, fin) == [Frame("stream") EXCEPT !.id = id, !.off = off, !.len = len, !.fin = fin]

\* every frame kind the handlers tell apart
AllFrames(c) ==
    {Frame("padding"), Frame("ping"), Frame("handshake_done"), Frame("connection_close"),
     Frame("new_token"), Frame("malformed"), AckFrame({0, 1}, 1),
     CryptoFrame(GoodParams(c)), CryptoFrame(BadParams),
     StreamFrame(PeerStreamID(c), 0, 1, FALSE),
     StreamFrame(PeerStreamID(c), 0, LocalInitialMaxData + 1, FALSE),
     StreamFrame(LocalUniStreamID(c), 0, 1, FALSE),
     [Frame("stop_sending") EXCEPT !.id = PeerStreamID(c)],
     [Frame("reset_stream") EXCEPT !.id = PeerStreamID(c), !.len = 1],
     [Frame("max_data") EXCEPT !.len = 3]}

\* the frames the peer sends in the runs explored
SingleFrames(c) ==
    {Frame("ping"), Frame("handshake_done"), Frame("connection_close"),
     Frame("malformed"), AckFrame({0, 1}, 1), CryptoFrame(GoodParams(c)),
     StreamFrame(PeerStreamID(c), 0, 1, FALSE)}

FrameSeqs(c) ==
    {<<f>> : f \in SingleFrames(c)} \cup {<<Frame("connection_close"), Frame("ping")>>}

PacketTypeSpace(typ) ==
    IF typ = "initial" THEN packetSpaceInitial
    ELSE IF typ = "handshake" THEN packetSpaceHandshake ELSE packetSpaceApplication

\* the destination CID a correct peer puts in a packet of this type
GoodDCID(c, typ) == IF ~c.isClient /\ typ = "initial" /\ ~c.gotPeerCID THEN FirstDCID ELSE c.scid

\* the key a correct peer seals a packet of this type with
GoodKey(c, typ) ==
    LET sp == c.packetNumberSpaces[PacketTypeSpace(typ)]
    IN IF typ = "initial" /\ ~c.derivedInitialSecrets THEN InitialKey(GoodDCID(c, typ))
       ELSE IF sp.opener # NoKey THEN sp.opener
       ELSE IF typ = "initial" THEN InitialKey(FirstDCID) ELSE TLSKey(PacketTypeSpace(typ))

BadKey == [kind |-> "bad", cid |-> NilCID]

\* the packet numbers the peer uses next: the lowest one not yet received
\* here, and 0 again
PeerPNs(c, typ) ==
    LET got == c.packetNumberSpaces[PacketTypeSpace(typ)].received
    IN {0} \cup {pn \in 0..MaxRecvPN : pn \notin got /\ \A q \in 0..(pn - 1) : q \in got}

\* What the peer can have sealed by now.  It derives Initial keys from the
\* CIDs; it has Handshake keys once the first Initial flight of this side
\* went out (its ClientHello or ServerHello), and 1-RTT keys once it has all
\* it needs of this side's handshake: a client the server's Handshake
\* flight, a server the ClientHello.  Its own CRYPTO data answers a flight
\* of this side, except the ClientHello.  Anybody can send a packet sealed
\* with a wrong key.
PeerCanSend(c, p) ==
    LET crypto == \E i \in 1..Len(p.frames) : p.frames[i].typ = "crypto"
    IN \/ p.key = BadKey
       \/ p.typ \notin {"initial", "handshake", "short"}
       \/ p.typ = "initial" /\ (crypto /\ c.isClient => hist.flight[packetSpaceInitial])
       \/ p.typ = "handshake" /\ hist.flight[packetSpaceInitial]
             /\ (crypto /\ ~c.isClient => hist.flight[packetSpaceHandshake])
       \/ p.typ = "short" /\ (IF c.isClient THEN hist.flight[packetSpaceInitial]
                                ELSE hist.flight[packetSpaceHandshake])

Sendable(c, ds) == {d \in ds : \A i \in 1..Len(d) : PeerCanSend(c, d[i])}

GoodPackets(c) ==
    UNION {{Packet(typ, GoodDCID(c, typ), PeerCID, pn, GoodKey(c, typ), fs) :
               pn \in PeerPNs(c, typ), fs \in FrameSeqs(c)} : typ \in {"initial", "handshake", "short"}}

OddPackets(c) ==
    {Packet("short", "zz", PeerCID, 0, GoodKey(c, "short"), <<Frame("ping")>>),
     Packet("short", c.scid, PeerCID, 0, BadKey, <<Frame("ping")>>),
     Packet("zerortt", c.scid, PeerCID, 0, NoKey, <<>>),
     Packet("malformed", c.scid, PeerCID, 0, NoKey, <<>>),
     [Packet("version_negotiation", c.scid, c.dcid, 0, NoKey, <<>>) EXCEPT !.versions = <<7>>],
     [Packet("retry", c.scid, RetryCID, 0, NoKey, <<>>) EXCEPT !.token = "tok", !.tagOK = FALSE]}

Datagrams(c) ==
    Sendable(c,
        {<<>>}
        \cup {<<p>> : p \in GoodPackets(c) \cup OddPackets(c)}
        \cup {<<Packet("initial", GoodDCID(c, "initial"), PeerCID, 0, GoodKey(c, "initial"), <<CryptoFrame(GoodParams(c))>>),
                Packet("handshake", c.scid, PeerCID, 0, TLSKey(packetSpaceHandshake), <<CryptoFrame(GoodParams(c))>>)>>})

\* packets beyond those of the runs explored, for what must hold whatever
\* Write is given
UnusualPackets(c) ==
    OddPackets(c)
    \cup {[Packet("version_negotiation", c.scid, c.dcid, 0, NoKey, <<>>) EXCEPT !.versions = <<7, SupportedVersion>>],
          [Packet("retry", c.scid, RetryCID, 0, NoKey, <<>>) EXCEPT !.token = "tok"]}

BufSizes == {MinInitialPacketSize}

CloseArgs == {[application |-> FALSE, errorCode |-> 10, reasonPhrase |-> ""],
              [application |-> TRUE, errorCode |-> 1, reasonPhrase |-> "bye"]}

\* ------------------------------------------------------- the state machine
\* last is the result of the latest API call; hist records what the claims
\* need of the past: the arguments of the first effective Close call and
\* the CONNECTION_CLOSE packets Read has returned, per space.
\* The last call made and what it returned: arg is the length of the input
\* of Write, the buffer size of Read, the error code of Close; from is the
\* connection state the call found.
NoCall == [op |-> "none", arg |-> 0, from |-> stateAttempted, n |-> 0, err |-> NoErr]

\* between calls the caller holds the log entries and the bytes of the call
\* that returned; the connection keeps neither
Settle(c) == [c EXCEPT !.log = <<>>, !.out = <<>>]

\* the frames of kind typ among the log entries of one call
Processed(log, typ) == {i \in 1..Len(log) : log[i].ev = "frames_processed" /\ log[i].typ = typ}

ProcessedAny(log) == {i \in 1..Len(log) : log[i].ev = "frames_processed"}

\* the packets of space sp that carry a frame of kind typ among those one
\* Read wrote
FrameCount(out, sp, typ) == Cardinality({i \in 1..Len(out) : out[i].space = sp /\ \E j \in 1..Len(out[i].frames) : out[i].frames[j].typ = typ})

CloseCount(out, sp) == FrameCount(out, sp, "connection_close")

\* the packet numbers of the packets of space sp among those one Read wrote
SentPNs(out, sp) == {out[i].pn : i \in {j \in 1..Len(out) : out[j].space = sp}}

\* the log of one Write tells of an ack-eliciting frame handled in a packet
\* of space sp
ElicitedIn(log, sp) ==
    \E i \in 1..Len(log) :
        /\ log[i].ev = "frames_processed" /\ isFrameAckEliciting(log[i].typ)
        /\ \E j \in 1..(i - 1) :
              /\ log[j].ev = "packet_received" /\ PacketTypeSpace(log[j].typ) = sp
              /\ \A k \in (j + 1)..(i - 1) : log[k].ev = "frames_processed"

\* a Retry or a Version Negotiation took effect between c and d: the
\* handshake starts over
HandshakeRestarted(c, d) == d.didRetry # c.didRetry \/ d.didVersionNegotiation # c.didVersionNegotiation

\* hist records what the calls so far did: how many there were, the
\* arguments of the first Close, whether a CONNECTION_CLOSE of the peer was
\* processed, the spaces in which CRYPTO data went out since the handshake
\* last started over, the CONNECTION_CLOSE packets written per space, and
\* the largest packet number Read has emitted per space (-1: none yet);
\* elicited tells per space whether a packet with an ack-eliciting frame
\* was received since Read last emitted an ACK frame there; hsDone tells
\* that a HANDSHAKE_DONE frame went out and no packet with a
\* HANDSHAKE_DONE frame was declared lost since; complete counts per stream
\* the StreamComplete events queued, lostStream tells that a STREAM frame
\* was declared lost, lateAck that an ACK frame was handled after a
\* StreamComplete event had been queued.  budget is the
\* number of calls a run may make, sendPNs the number of packets it may
\* send per space.
\* the log of one Write that returned err tells of a packet received and
\* handled to its end
ReceivedAll(log, err) ==
    \E i \in 1..Len(log) :
        /\ log[i].ev = "packet_received"
        /\ err = NoErr \/ \E j \in (i + 1)..Len(log) : log[j].ev \in {"packet_received", "packet_dropped"}

\* an ack-eliciting packet among those one Read wrote
SentEliciting(out) ==
    \E i \in 1..Len(out) : \E j \in 1..Len(out[i].frames) : isFrameAckEliciting(out[i].frames[j].typ)

\* the call that led from c to d discarded the keys of space sp
KeysDiscarded(c, d, sp) ==
    /\ canEncrypt(c.packetNumberSpaces[sp]) \/ canDecrypt(c.packetNumberSpaces[sp])
    /\ ~canEncrypt(d.packetNumberSpaces[sp]) /\ ~canDecrypt(d.packetNumberSpaces[sp])

\* the HANDSHAKE_DONE frames among the frames declared lost and not yet
\* taken up again
LostDone(c) ==
    Cardinality({i \in 1..Len(c.recovery.lost[packetSpaceApplication]) :
                    c.recovery.lost[packetSpaceApplication][i].typ = "handshake_done"})

\* the packets with a HANDSHAKE_DONE frame among those one Read wrote
DoneCount(out) ==
    Cardinality({i \in 1..Len(out) : \E j \in 1..Len(out[i].frames) : out[i].frames[j].typ = "handshake_done"})

\* the StreamComplete events for stream id that a call queued, going from
\* the queue before to the queue after
NewCompletes(before, after, id) ==
    Cardinality({i \in (Len(before) + 1)..Len(after) : after[i] = [typ |-> "StreamComplete", id |-> id]})

\* a STREAM frame is among the frames declared lost
LostStream(c) ==
    \E i \in 1..Len(c.recovery.lost[packetSpaceApplication]) : c.recovery.lost[packetSpaceApplication][i].typ = "stream"

NoHistory(budget, sendPNs) ==
    [ops |-> 0, budget |-> budget, sendPNs |-> sendPNs, firstClose |-> NoFrame, peerClosed |-> FALSE,
     flight |-> [sp \in Spaces |-> FALSE], ccSent |-> [sp \in Spaces |-> 0],
     lastPN |-> [sp \in Spaces |-> 0 - 1], elicited |-> [sp \in Spaces |-> FALSE],
     dropped |-> [sp \in Spaces |-> FALSE], step |-> 1, quiet |-> TRUE, hsDone |-> FALSE,
     complete |-> [id \in 0..3 |-> 0], lostStream |-> FALSE, lateAck |-> FALSE]

Init ==
    /\ \E isClient \in BOOLEAN : \E maxIdle \in {0, IdleTimeout} :
           conn = newConn(isClient, NilCID, maxIdle)
    /\ now = 1
    /\ last = NoCall
    /\ hist = NoHistory(MaxOps, MaxSendPN)

Write(d) ==
    LET r == ConnWrite(conn, d, now)
    IN /\ hist.ops < hist.budget
       /\ Len(r.c.events) <= MaxEvents
       /\ conn' = Settle(r.c)
       /\ last' = [op |-> "Write", arg |-> Len(d), from |-> conn.state, n |-> r.n, err |-> r.err]
       /\ hist' = [hist EXCEPT !.ops = @ + hist.step,
                               !.peerClosed = @ \/ Processed(r.c.log, "connection_close") # {},
                               !.flight = IF HandshakeRestarted(conn, r.c) THEN [sp \in Spaces |-> FALSE] ELSE @,
                               !.elicited = [sp \in Spaces |-> @[sp] \/ ElicitedIn(r.c.log, sp)],
                               !.dropped = [sp \in Spaces |-> @[sp] \/ KeysDiscarded(conn, r.c, sp)],
                               !.quiet = @ \/ ReceivedAll(r.c.log, r.err),
                               !.hsDone = @ /\ LostDone(r.c) <= LostDone(conn),
                               !.complete = [id \in 0..3 |-> @[id] + NewCompletes(conn.events, r.c.events, id)],
                               !.lostStream = @ \/ LostStream(r.c),
                               !.lateAck = @ \/ (Processed(r.c.log, "ack") # {} /\ \E id \in 0..3 : hist.complete[id] > 0)]
       /\ UNCHANGED now

Read(bufLen) ==
    LET r == ConnRead(conn, bufLen, now)
    IN /\ hist.ops < hist.budget
       /\ \A sp \in Spaces : r.c.packetNumberSpaces[sp].nextPacketNumber <= hist.sendPNs
       /\ conn' = Settle(r.c)
       /\ last' = [op |-> "Read", arg |-> bufLen, from |-> conn.state, n |-> r.n, err |-> r.err]
       /\ hist' = [hist EXCEPT !.ops = @ + hist.step,
                               !.flight = [sp \in Spaces |-> @[sp] \/ (r.n > 0 /\ FrameCount(r.c.out, sp, "crypto") > 0)],
                               !.ccSent = [sp \in Spaces |-> @[sp] + IF r.n > 0 THEN CloseCount(r.c.out, sp) ELSE 0],
                               !.lastPN = [sp \in Spaces |-> IF r.n > 0 THEN SetMax({@[sp]} \cup SentPNs(r.c.out, sp)) ELSE @[sp]],
                               !.elicited = [sp \in Spaces |-> @[sp] /\ ~(r.n > 0 /\ FrameCount(r.c.out, sp, "ack") > 0)],
                               !.dropped = [sp \in Spaces |-> @[sp] \/ KeysDiscarded(conn, r.c, sp)],
                               !.quiet = @ /\ ~(r.n > 0 /\ SentEliciting(r.c.out)),
                               !.hsDone = @ \/ (r.n > 0 /\ DoneCount(r.c.out) > 0)]
       /\ UNCHANGED now

Close(a) ==
    /\ hist.ops < hist.budget
    /\ conn' = ConnClose(conn, a.application, a.errorCode, a.reasonPhrase)
    /\ last' = [op |-> "Close", arg |-> a.errorCode, from |-> conn.state, n |-> 0, err |-> NoErr]
    /\ hist' = [hist EXCEPT !.ops = @ + hist.step,
                            !.firstClose = IF @.set THEN @
                                           ELSE [set |-> TRUE, application |-> a.application, errorCode |-> a.errorCode, reasonPhrase |-> a.reasonPhrase]]
    /\ UNCHANGED now

\* Conn.Events: the queue is handed over and cleared
Events ==
    /\ hist.ops < hist.budget
    /\ conn.events # <<>>
    /\ conn' = [conn EXCEPT !.events = <<>>]
    /\ last' = [op |-> "Events", arg |-> 0, from |-> conn.state, n |-> Len(conn.events), err |-> NoErr]
    /\ hist' = [hist EXCEPT !.ops = @ + hist.step]
    /\ UNCHANGED now

\* the caller's clock advances
Tick ==
    /\ hist.ops < hist.budget
    /\ now < MaxTime
    /\ now' = now + 1
    /\ hist' = [hist EXCEPT !.ops = @ + hist.step]
    /\ UNCHANGED <<conn, last>>

Next ==
    \/ \E d \in Datagrams(conn) : Write(d)
    \/ \E n \in BufSizes : Read(n)
    \/ \E a \in CloseArgs : Close(a)
    \/ Events
    \/ Tick

Spec == Init /\ [][Next]_vars

\* ------------------------------------------------------------ stream data
\* Runs of a connection without idle timeout in which, after the handshake,
\* the application writes to a stream of its own and the peer sends STREAM,
\* RESET_STREAM and MAX_DATA frames.
LocalBidiStreamID(c) == IF c.isClient THEN 0 ELSE 1

\* the offset at which the application's next byte goes
StreamWriteOff(st) == SetMax({st.flow.sent} \cup {r.off + r.len : r \in st.sendBuf})

\* Conn.Stream followed by Stream.Write of n bytes; the result is [c, err]
ConnStreamWrite(c, id, n) ==
    LET g == getOrCreateStream(c, id, TRUE)
    IN IF g.err # NoErr THEN g
       ELSE Ok(PutStream(g.c, [TheStream(g.c, id) EXCEPT
                                  !.sendBuf = @ \cup {[off |-> StreamWriteOff(TheStream(g.c, id)), len |-> n, fin |-> FALSE]}]))

\* Conn.Stream followed by Stream.Write of n bytes and Stream.Close: the
\* last byte carries the FIN
ConnStreamWriteFin(c, id, n) ==
    LET g == getOrCreateStream(c, id, TRUE)
    IN IF g.err # NoErr THEN g
       ELSE Ok(PutStream(g.c, [TheStream(g.c, id) EXCEPT
                                  !.sendBuf = @ \cup {[off |-> StreamWriteOff(TheStream(g.c, id)), len |-> n, fin |-> TRUE]},
                                  !.sendFinal = StreamWriteOff(TheStream(g.c, id)) + n]))

StreamWriteFin(id, n) ==
    LET r == ConnStreamWriteFin(conn, id, n)
    IN /\ hist.ops < hist.budget
       /\ IsEstablished(conn)
       /\ \A st \in StreamGet(conn, id) : st.sendFinal < 0
       /\ conn' = r.c
       /\ last' = [op |-> "StreamWriteFin", arg |-> n, from |-> conn.state, n |-> n, err |-> r.err]
       /\ hist' = [hist EXCEPT !.ops = @ + hist.step]
       /\ UNCHANGED now

StreamWrite(id, n) ==
    LET r == ConnStreamWrite(conn, id, n)
    IN /\ hist.ops < hist.budget
       /\ IsEstablished(conn)
       /\ conn' = r.c
       /\ last' = [op |-> "StreamWrite", arg |-> n, from |-> conn.state, n |-> n, err |-> r.err]
       /\ hist' = [hist EXCEPT !.ops = @ + hist.step]
       /\ UNCHANGED now

StreamFrames(c) ==
    {StreamFrame(PeerStreamID(c), 0, 1, FALSE), StreamFrame(PeerStreamID(c), 0, 2, FALSE),
     StreamFrame(PeerStreamID(c), 1, 1, FALSE), StreamFrame(PeerStreamID(c), 2, 1, FALSE),
     StreamFrame(LocalBidiStreamID(c), 0, 1, FALSE),
     [Frame("reset_stream") EXCEPT !.id = PeerStreamID(c), !.len = 3],
     [Frame("max_data") EXCEPT !.len = PeerInitialMaxData + 1]}

\* the lowest packet number not yet received here
NextPeerPN(c, typ) ==
    {pn \in 0..MaxStreamPN : pn \notin c.packetNumberSpaces[PacketTypeSpace(typ)].received
                               /\ \A q \in 0..(pn - 1) : q \in c.packetNumberSpaces[PacketTypeSpace(typ)].received}

StreamPackets(c) ==
    UNION {{Packet(typ, GoodDCID(c, typ), PeerCID, pn, GoodKey(c, typ), <<CryptoFrame(GoodParams(c))>>) :
               pn \in NextPeerPN(c, typ)} : typ \in {"initial", "handshake"}}
    \cup {Packet("short", c.scid, PeerCID, pn, GoodKey(c, "short"), <<f>>) :
             pn \in NextPeerPN(c, "short"), f \in StreamFrames(c)}

StreamDatagrams(c) == Sendable(c, {<<p>> : p \in StreamPackets(c)})

InitStream ==
    /\ \E isClient \in BOOLEAN : conn = newConn(isClient, NilCID, 0)
    /\ now = 1
    /\ last = NoCall
    /\ hist = NoHistory(MaxStreamOps, MaxSendPN)

NextStream ==
    \/ \E d \in StreamDatagrams(conn) : Write(d)
    \/ \E n \in BufSizes : Read(n)
    \/ \E n \in {1, PeerInitialMaxData + 1} : StreamWrite(LocalBidiStreamID(conn), n)
    \/ StreamWrite(LocalUniStreamID(conn), 1)

SpecStream == InitStream /\ [][NextStream]_vars

\* ------------------------------------------------------- acknowledgements
\* Runs of a connection without idle timeout in which the peer sends Initial
\* packets in packet number order, each with its handshake data, a PING, a
\* PADDING frame or an ACK frame: for all packets sent to it so far, or for
\* the latest one alone.
LargestSent(c, space) == c.packetNumberSpaces[space].nextPacketNumber - 1

AckFrames(c, space) ==
    IF LargestSent(c, space) < 0 THEN {}
    ELSE {AckFrame({LargestSent(c, space)}, 0), AckFrame(0..LargestSent(c, space), 0)}

AckPackets(c) ==
    {Packet("initial", GoodDCID(c, "initial"), PeerCID, pn, GoodKey(c, "initial"), <<f>>) :
        pn \in {n \in 0..MaxAckPN : /\ n \notin c.packetNumberSpaces[packetSpaceInitial].received
                                      /\ \A q \in 0..(n - 1) : q \in c.packetNumberSpaces[packetSpaceInitial].received},
        f \in {CryptoFrame(GoodParams(c)), Frame("ping"), PaddingFrame(1)} \cup AckFrames(c, packetSpaceInitial)}

AckDatagrams(c) == Sendable(c, {<<p>> : p \in AckPackets(c)})

InitAck ==
    /\ \E isClient \in BOOLEAN : conn = newConn(isClient, NilCID, 0)
    /\ now = 1
    /\ last = NoCall
    /\ hist = NoHistory(MaxAckOps, MaxAckPN + 1)

NextAck ==
    \/ \E d \in AckDatagrams(conn) : Write(d)
    \/ \E n \in BufSizes : Read(n)

SpecAck == InitAck /\ [][NextAck]_vars

\* ------------------------------------------------------------------ loss
\* Runs of a connection without idle timeout in which the application writes
\* to its streams and the peer, after the handshake, sends 1-RTT
\* packets with a PING or an ACK frame, for all packets sent to it so far
\* or for the latest alone.  The runs are bounded by the packet
\* numbers and the bytes written, not by the number of calls.
LossPackets(c) ==
    UNION {{Packet(typ, GoodDCID(c, typ), PeerCID, pn, GoodKey(c, typ), <<CryptoFrame(GoodParams(c))>>) :
               pn \in NextPeerPN(c, typ) \cap {0}} : typ \in {"initial", "handshake"}}
    \cup {Packet("short", c.scid, PeerCID, pn, GoodKey(c, "short"), <<f>>) :
             pn \in NextPeerPN(c, "short") \cap 0..MaxLossRecvPN,
             f \in {Frame("ping")} \cup AckFrames(c, packetSpaceApplication)}

LossDatagrams(c) == Sendable(c, {<<p>> : p \in LossPackets(c)})

InitLoss ==
    /\ \E isClient \in BOOLEAN : conn = newConn(isClient, NilCID, 0)
    /\ now = 1
    /\ last = NoCall
    /\ hist = [NoHistory(1, MaxLossPN + 1) EXCEPT !.step = 0]

StreamWriteUpTo(id, n) ==
    /\ \A st \in StreamGet(conn, id) : StreamWriteOff(st) + n <= MaxLossBytes
    /\ StreamWrite(id, n)

NextLoss ==
    \/ \E d \in LossDatagrams(conn) : Write(d)
    \/ \E n \in BufSizes : Read(n)
    \/ \E id \in {LocalBidiStreamID(conn), LocalUniStreamID(conn)} : StreamWriteUpTo(id, 1)

SpecLoss == InitLoss /\ [][NextLoss]_vars

\* --------------------------------------------------------- short buffers
\* Runs in which the caller hands Read buffers of several sizes: one in
\* which no frame fits an Initial packet, one that holds a few CRYPTO bytes,
\* one a byte short of the minimum Initial datagram, and that minimum.  The
\* peer sends its handshake flights; the caller closes and lets time pass.
InitialOverhead(c) == HeaderLen(c, packetSpaceInitial) + AEADOverhead

ReadSizes(c) ==
    {InitialOverhead(c) + minPayloadLength + 2,
     InitialOverhead(c) + 2 * maxCryptoFrameOverhead,
     MinInitialPacketSize - 1,
     MinInitialPacketSize}

BufPackets(c) ==
    UNION {{Packet(typ, GoodDCID(c, typ), PeerCID, pn, GoodKey(c, typ), <<CryptoFrame(GoodParams(c))>>) :
               pn \in NextPeerPN(c, typ) \cap {0}} : typ \in {"initial", "handshake"}}

BufDatagrams(c) == Sendable(c, {<<>>} \cup {<<p>> : p \in BufPackets(c)})

NextBuf ==
    \/ \E d \in BufDatagrams(conn) : Write(d)
    \/ \E n \in ReadSizes(conn) : Read(n)
    \/ \E a \in CloseArgs : Close(a)
    \/ Tick

SpecBuf == Init /\ [][NextBuf]_vars

\* ------------------------------------------------------------- idle timer
\* Runs in which time passes between the calls and the peer sends its
\* handshake flights, PINGs, a Retry, a Version Negotiation and packets that
\* are dropped.
IdlePackets(c) ==
    BufPackets(c)
    \cup {Packet("initial", GoodDCID(c, "initial"), PeerCID, pn, GoodKey(c, "initial"), <<Frame("ping")>>) :
             pn \in NextPeerPN(c, "initial") \cap 0..MaxRecvPN}
    \cup {[Packet("retry", c.scid, RetryCID, 0, NoKey, <<>>) EXCEPT !.token = "tok"],
          [Packet("version_negotiation", c.scid, c.dcid, 0, NoKey, <<>>) EXCEPT !.versions = <<SupportedVersion>>],
          Packet("short", c.scid, PeerCID, 0, TLSKey(packetSpaceApplication), <<Frame("ping")>>)}

IdleDatagrams(c) == Sendable(c, {<<p>> : p \in IdlePackets(c)})

NextIdle ==
    \/ \E d \in IdleDatagrams(conn) : Write(d)
    \/ \E n \in BufSizes : Read(n)
    \/ Tick

SpecIdle == Init /\ [][NextIdle]_vars

\* ----------------------------------------------------------------- events
\* Runs in which the application writes a byte to its bidirectional stream
\* and closes it, the peer sends 1-RTT packets of one or two frames among an
\* ACK of all packets sent to it, a STREAM frame and a STOP_SENDING frame,
\* and the application collects the events.
EventFrameSeqs(c) ==
    LET fs == AckFrames(c, packetSpaceApplication)
                \cup {StreamFrame(PeerStreamID(c), 0, 1, FALSE),
                      [Frame("stop_sending") EXCEPT !.id = LocalBidiStreamID(c)]}
    IN {<<f>> : f \in fs} \cup {<<f, g>> : f \in fs, g \in fs}

EventPackets(c) ==
    UNION {{Packet(typ, GoodDCID(c, typ), PeerCID, pn, GoodKey(c, typ), <<CryptoFrame(GoodParams(c))>>) :
               pn \in NextPeerPN(c, typ) \cap {0}} : typ \in {"initial", "handshake"}}
    \cup {Packet("short", c.scid, PeerCID, pn, GoodKey(c, "short"), fs) :
             pn \in NextPeerPN(c, "short") \cap 0..MaxRecvPN, fs \in EventFrameSeqs(c)}

EventDatagrams(c) == Sendable(c, {<<p>> : p \in EventPackets(c)})

NextEvents ==
    \/ \E d \in EventDatagrams(conn) : Write(d)
    \/ \E n \in BufSizes : Read(n)
    \/ StreamWriteFin(LocalBidiStreamID(conn), 1)
    \/ Events

SpecEvents == InitLoss /\ [][NextEvents]_vars

\* ------------------------------------------- Retry and Version Negotiation
\* Runs in which the peer answers with Retry and Version Negotiation
\* packets, authentic or not, and a server that chooses its source CID and
\* transport parameters freely.
RetryPackets(c) ==
    {[Packet("retry", c.scid, RetryCID, 0, NoKey, <<>>) EXCEPT !.token = "tok"],
     [Packet("retry", c.scid, RetryCID, 0, NoKey, <<>>) EXCEPT !.token = "tok", !.tagOK = FALSE],
     Packet("retry", c.scid, RetryCID, 0, NoKey, <<>>),
     [Packet("retry", "zz", RetryCID, 0, NoKey, <<>>) EXCEPT !.token = "tok"],
     [Packet("retry", c.scid, c.dcid, 0, NoKey, <<>>) EXCEPT !.token = "tok"],
     [Packet("version_negotiation", c.scid, c.dcid, 0, NoKey, <<>>) EXCEPT !.versions = <<7, SupportedVersion>>],
     [Packet("version_negotiation", c.scid, c.dcid, 0, NoKey, <<>>) EXCEPT !.versions = <<7, 9>>],
     [Packet("version_negotiation", c.scid, "zz", 0, NoKey, <<>>) EXCEPT !.versions = <<SupportedVersion>>],
     [Packet("version_negotiation", "zz", c.dcid, 0, NoKey, <<>>) EXCEPT !.versions = <<SupportedVersion>>]}

\* the transport parameters a server may send after a Retry
ParamChoices(scid) ==
    {[NoParams EXCEPT !.InitialSourceCID = scid, !.OriginalDestinationCID = odcid, !.RetrySourceCID = rscid] :
        odcid \in {FirstDCID, RetryCID}, rscid \in {NilCID, RetryCID, PeerCID}}

FlightPackets(c) ==
    {Packet("initial", GoodDCID(c, "initial"), scid, pn, GoodKey(c, "initial"), <<CryptoFrame(GoodParams(c))>>) :
        scid \in {PeerCID, RetryCID}, pn \in PeerPNs(c, "initial")}
    \cup UNION {{Packet("handshake", c.scid, scid, 0, GoodKey(c, "handshake"), <<CryptoFrame(ps)>>) :
                    ps \in ParamChoices(scid)} : scid \in {PeerCID, RetryCID}}

RetryDatagrams(c) == Sendable(c, {<<p>> : p \in RetryPackets(c) \cup FlightPackets(c)})

NextRetry ==
    \/ \E d \in RetryDatagrams(conn) : Write(d)
    \/ \E n \in BufSizes : Read(n)
    \/ \E a \in CloseArgs : Close(a)

SpecRetry == Init /\ [][NextRetry]_vars

\* ---------------------------------------------------------- closing a stream
\* Runs as those of the loss specification in which the application also
\* closes its stream once every byte it wrote has been sent.  The clock
\* stands still, so a Read that changes nothing changes nothing however
\* often the caller repeats it.
StreamClose(id) ==
    /\ \A st \in StreamGet(conn, id) : st.sendBuf = {}
    /\ StreamWriteFin(id, 0)

NextFin ==
    \/ \E d \in LossDatagrams(conn) : Write(d)
    \/ \E n \in BufSizes : Read(n)
    \/ StreamWriteUpTo(LocalBidiStreamID(conn), 1)
    \/ StreamClose(LocalBidiStreamID(conn))

SpecFin == InitLoss /\ [][NextFin]_vars

\* ------------------------------------------------------- stream completion
\* Runs as those of the loss specification in which the application writes
\* a byte to its bidirectional stream, then a second byte with which it
\* closes the stream, and collects the events.
CompletePackets(c) ==
    UNION {{Packet(typ, GoodDCID(c, typ), PeerCID, pn, GoodKey(c, typ), <<CryptoFrame(GoodParams(c))>>) :
               pn \in NextPeerPN(c, typ) \cap {0}} : typ \in {"initial", "handshake"}}
    \cup {Packet("short", c.scid, PeerCID, pn, GoodKey(c, "short"), <<f>>) :
             pn \in {n \in 0..MaxCompleteRecvPN : /\ n \notin c.packetNumberSpaces[packetSpaceApplication].received
                                                   /\ \A q \in 0..(n - 1) : q \in c.packetNumberSpaces[packetSpaceApplication].received},
             f \in {Frame("ping")} \cup AckFrames(c, packetSpaceApplication)}

CompleteDatagrams(c) == Sendable(c, {<<p>> : p \in CompletePackets(c)})

InitComplete ==
    /\ \E isClient \in BOOLEAN : conn = newConn(isClient, NilCID, 0)
    /\ now = 1
    /\ last = NoCall
    /\ hist = [NoHistory(1, MaxCompletePN + 1) EXCEPT !.step = 0]

StreamWriteOpen(id, n) ==
    /\ \A st \in StreamGet(conn, id) : st.sendFinal < 0 /\ StreamWriteOff(st) = 0
    /\ StreamWrite(id, n)

NextComplete ==
    \/ \E d \in CompleteDatagrams(conn) : Write(d)
    \/ \E n \in BufSizes : Read(n)
    \/ StreamWriteOpen(LocalBidiStreamID(conn), 1)
    \/ StreamWriteFin(LocalBidiStreamID(conn), 1)
    \/ Events

SpecComplete == InitComplete /\ [][NextComplete]_vars

\* ------------------------------------------------------------- log events
\* The log event of a frame and its text (transport/log.go).  A frame to log
\* is a record with a kind and the fields of that kind; a value handed to
\* addField is tagged with its Go type: a number, a bool, a string or a
\* byte slice.
NumVal(n) == [k |-> "num", n |-> n, b |-> FALSE, s |-> "", bytes |-> <<>>]

BoolVal(b) == [k |-> "bool", n |-> 0, b |-> b, s |-> "", bytes |-> <<>>]

StrVal(s) == [k |-> "str", n |-> 0, b |-> FALSE, s |-> s, bytes |-> <<>>]

BytesVal(bytes) == [k |-> "bytes", n |-> 0, b |-> FALSE, s |-> "", bytes |-> bytes]

HexDigits == <<"0", "1", "2", "3", "4", "5", "6", "7", "8", "9", "a", "b", "c", "d", "e", "f">>

RECURSIVE HexEncodeToString(_)
\* hex.EncodeToString: two lower-case digits per byte
HexEncodeToString(bytes) ==
    IF bytes = <<>> THEN ""
    ELSE HexDigits[(Head(bytes) \div 16) + 1] \o HexDigits[(Head(bytes) % 16) + 1] \o HexEncodeToString(Tail(bytes))

\* strconv.FormatBool
FormatBool(b) == IF b THEN "true" ELSE "false"

\* a number below 100 in two decimal digits
Pad2(n) == IF n < 10 THEN "0" \o ToString(n) ELSE ToString(n)

\* a number below 10000 in four decimal digits
Pad4(n) == Pad2(n \div 100) \o Pad2(n % 100)

\* time.Time.Format(time.RFC3339) of a UTC time; the nanoseconds do not show
FormatRFC3339(tm) ==
    Pad4(tm.year) \o "-" \o Pad2(tm.month) \o "-" \o Pad2(tm.day) \o "T"
    \o Pad2(tm.hour) \o ":" \o Pad2(tm.minute) \o ":" \o Pad2(tm.second) \o "Z"

\* errorCodeString for the codes of the TLS alert range
errorCodeString(code) == "crypto_error_" \o ToString(code - 256)

newLogEvent(tm, tp) == [Time |-> tm, Type |-> tp, Fields |-> <<>>]

\* newLogField: a number goes to Num, everything else to Str as text
newLogField(key, val) ==
    CASE val.k = "num" -> [Key |-> key, Str |-> "", Num |-> val.n]
      [] val.k = "bool" -> [Key |-> key, Str |-> FormatBool(val.b), Num |-> 0]
      [] val.k = "str" -> [Key |-> key, Str |-> val.s, Num |-> 0]
      [] val.k = "bytes" -> [Key |-> key, Str |-> HexEncodeToString(val.bytes), Num |-> 0]

addField(e, k, v) == [e EXCEPT !.Fields = Append(@, newLogField(k, v))]

\* LogField.String
LogFieldString(f) == IF f.Str = "" THEN f.Key \o "=" \o ToString(f.Num) ELSE f.Key \o "=" \o f.Str

RECURSIVE LogFieldsString(_)
LogFieldsString(fields) ==
    IF fields = <<>> THEN "" ELSE " " \o LogFieldString(Head(fields)) \o LogFieldsString(Tail(fields))

\* LogEvent.String
LogEventString(e) == FormatRFC3339(e.Time) \o " " \o e.Type \o LogFieldsString(e.Fields)

StreamTypeString(bidi) == IF bidi THEN "bidirectional" ELSE "unidirectional"

\* the keys and values the logFrame function of the frame's kind hands to
\* addField, in its order
logFrame(f) ==
    <<<<"frame_type", StrVal(f.kind)>>>> \o
    CASE f.kind = "ack" -> <<<<"ack_delay", NumVal(f.ackDelay)>>>>
      [] f.kind = "reset_stream" -> <<<<"stream_id", NumVal(f.streamID)>>, <<"error_code", NumVal(f.errorCode)>>, <<"final_size", NumVal(f.finalSize)>>>>
      [] f.kind = "stop_sending" -> <<<<"stream_id", NumVal(f.streamID)>>, <<"error_code", NumVal(f.errorCode)>>>>
      [] f.kind = "crypto" -> <<<<"offset", NumVal(f.offset)>>, <<"length", NumVal(Len(f.data))>>>>
      [] f.kind = "new_token" -> <<<<"token", BytesVal(f.token)>>>>
      [] f.kind = "stream" -> <<<<"stream_id", NumVal(f.streamID)>>, <<"offset", NumVal(f.offset)>>, <<"length", NumVal(Len(f.data))>>, <<"fin", BoolVal(f.fin)>>>>
      [] f.kind = "max_data" -> <<<<"maximum", NumVal(f.maximumData)>>>>
      [] f.kind = "max_stream_data" -> <<<<"stream_id", NumVal(f.streamID)>>, <<"maximum", NumVal(f.maximumData)>>>>
      [] f.kind = "max_streams" -> <<<<"stream_type", StrVal(StreamTypeString(f.bidi))>>, <<"maximum", NumVal(f.maximumStreams)>>>>
      [] f.kind = "data_blocked" -> <<<<"limit", NumVal(f.dataLimit)>>>>
      [] f.kind = "stream_data_blocked" -> <<<<"stream_id", NumVal(f.streamID)>>, <<"limit", NumVal(f.dataLimit)>>>>
      [] f.kind = "streams_blocked" -> <<<<"stream_type", StrVal(StreamTypeString(f.bidi))>>, <<"limit", NumVal(f.streamLimit)>>>>
      [] f.kind = "connection_close" ->
            <<<<"error_space", StrVal(IF f.application THEN "application" ELSE "transport")>>,
              <<"error_code", StrVal(errorCodeString(f.errorCode))>>,
              <<"raw_error_code", NumVal(f.errorCode)>>,
              <<"reason", StrVal(f.reasonPhrase)>>>>
            \o IF f.frameType > 0 THEN <<<<"trigger_frame_type", NumVal(f.frameType)>>>> ELSE <<>>
      [] OTHER -> <<>>

RECURSIVE addFields(_, _)
addFields(e, kvs) == IF kvs = <<>> THEN e ELSE addFields(addField(e, Head(kvs)[1], Head(kvs)[2]), Tail(kvs))

newLogEventFrame(tm, tp, f) == addFields(newLogEvent(tm, tp), logFrame(f))

\* the frames logged: every kind, with small and with empty values
LogBytes == {<<>>, <<0, 0, 0, 0>>, <<1, 171>>}

LogFrames ==
    {[kind |-> k] : k \in {"padding", "ping", "handshake_done"}}
    \cup {[kind |-> "ack", ackDelay |-> n] : n \in {0, 2}}
    \cup {[kind |-> "reset_stream", streamID |-> i, errorCode |-> c, finalSize |-> n] : i \in {0, 1}, c \in {0, 2}, n \in {0, 3}}
    \cup {[kind |-> "stop_sending", streamID |-> i, errorCode |-> c] : i \in {0, 1}, c \in {0, 2}}
    \cup {[kind |-> "crypto", offset |-> o, data |-> d] : o \in {0, 1}, d \in LogBytes}
    \cup {[kind |-> "new_token", token |-> d] : d \in LogBytes}
    \cup {[kind |-> "stream", streamID |-> i, offset |-> o, data |-> d, fin |-> b] : i \in {0, 2}, o \in {0, 3}, d \in LogBytes, b \in BOOLEAN}
    \cup {[kind |-> "max_data", maximumData |-> n] : n \in {0, 1}}
    \cup {[kind |-> "max_stream_data", streamID |-> i, maximumData |-> n] : i \in {0, 1}, n \in {0, 2}}
    \cup {[kind |-> "max_streams", bidi |-> b, maximumStreams |-> n] : b \in BOOLEAN, n \in {0, 1}}
    \cup {[kind |-> "data_blocked", dataLimit |-> n] : n \in {0, 1}}
    \cup {[kind |-> "stream_data_blocked", streamID |-> i, dataLimit |-> n] : i \in {0, 1}, n \in {0, 2}}
    \cup {[kind |-> "streams_blocked", bidi |-> b, streamLimit |-> n] : b \in BOOLEAN, n \in {0, 1}}
    \cup {[kind |-> "connection_close", application |-> a, errorCode |-> c, reasonPhrase |-> r, frameType |-> t] :
             a \in BOOLEAN, c \in {256, 290}, r \in {"", "reason"}, t \in {0, 99}}

LogTimes ==
    {[year |-> 2020, month |-> 1, day |-> 5, hour |-> 2, minute |-> 3, second |-> 4, nsec |-> 5],
     [year |-> 1999, month |-> 12, day |-> 31, hour |-> 23, minute |-> 59, second |-> 59, nsec |-> 0]}

\* Conn.logFrameProcessed: the observer gets the event of a frame handled at
\* time tm and takes its text
LogFrame(f, tm) ==
    /\ last' = [op |-> "LogEvent", frame |-> f, time |-> tm, typ |-> "frames_processed",
                str |-> LogEventString(newLogEventFrame(tm, "frames_processed", f))]
    /\ UNCHANGED <<conn, now, hist>>

NextLog == \E f \in LogFrames, tm \in LogTimes : LogFrame(f, tm)

SpecLog == Init /\ [][NextLog]_vars

\* ------------------------------------------------------------------ claims
dropped(sp) == ~canDecrypt(sp) /\ ~canEncrypt(sp)

FullBuffer == MinInitialPacketSize

\* C1: over any sequence of Write, Read, Close and timer expiries the
\* connection state never moves backwards in the order Attempted < Handshake
\* < Active < Draining < Closed; a Closed connection stays Closed.
C1_StateNeverMovesBack == [][conn'.state >= conn.state]_vars

\* C2: once IsClosed() is true, a Write handles no frame of any packet and
\* queues no event, and a Read writes zero bytes.
C2_ClosedIsInert ==
    IsClosed(conn) =>
       /\ \A d \in Datagrams(conn) :
             LET r == ConnWrite(conn, d, now)
             IN ProcessedAny(r.c.log) = {} /\ r.c.events = conn.events
       /\ \A n \in BufSizes : ConnRead(conn, n, now).n = 0

\* C3: whenever the connection state is Active, on the client and on the
\* server, the Initial packet number space has neither opener nor sealer.
C3_ActiveMeansInitialDropped ==
    conn.state = stateActive => dropped(conn.packetNumberSpaces[packetSpaceInitial])

\* C4: whenever the handshake-confirmed flag is set, on the client and on
\* the server, the Handshake packet number space has been dropped.
C4_ConfirmedMeansHandshakeDropped ==
    conn.handshakeConfirmed => dropped(conn.packetNumberSpaces[packetSpaceHandshake])

\* a Write of datagram d at time t that consumes nothing and handles nothing
WriteIgnores(c, d, t) ==
    LET r == ConnWrite(c, d, t)
    IN /\ r.n = 0 /\ r.err = NoErr
       /\ r.c.log = <<>>
       /\ r.c.events = c.events
       /\ r.c.streams = c.streams /\ r.c.flow = c.flow /\ r.c.handshake = c.handshake

\* C5: while the connection is Draining, after a local Close or after a
\* CONNECTION_CLOSE was received, a Write consumes zero bytes, handles no
\* frame and no packet, and queues no event, whatever datagram it is given:
\* any frame in any packet type, sealed with the right key or not, alone or
\* coalesced.
C5_DrainingWriteIsNoOp ==
    conn.state = stateDraining =>
       /\ \A typ \in {"initial", "handshake", "short"}, pn \in 0..MaxRecvPN, f \in AllFrames(conn) :
             WriteIgnores(conn, <<Packet(typ, GoodDCID(conn, typ), PeerCID, pn, GoodKey(conn, typ), <<f>>)>>, now)
       /\ \A p \in UnusualPackets(conn) :
             /\ WriteIgnores(conn, <<p>>, now)
             /\ WriteIgnores(conn, <<p, Packet("short", conn.scid, PeerCID, 1, GoodKey(conn, "short"), <<Frame("ping")>>)>>, now)
       /\ WriteIgnores(conn, <<Packet("initial", GoodDCID(conn, "initial"), PeerCID, 0, GoodKey(conn, "initial"), <<CryptoFrame(GoodParams(conn))>>),
                                Packet("handshake", conn.scid, PeerCID, 0, TLSKey(packetSpaceHandshake), <<CryptoFrame(GoodParams(conn))>>)>>, now)

C5_Witness ==
    /\ conn.state = stateDraining
    /\ last.op = "Write" /\ last.from = stateDraining /\ last.arg > 0 /\ last.n = 0
    /\ hist.firstClose.set /\ conn.closeFrame.set

\* frame sequences that carry a CONNECTION_CLOSE, alone or next to other
\* frames
CloseFrameSeqs ==
    {<<Frame("connection_close")>>,
     <<Frame("connection_close"), Frame("ping")>>,
     <<Frame("ping"), Frame("connection_close")>>,
     <<AckFrame({0, 1}, 1), Frame("connection_close")>>,
     <<Frame("connection_close"), Frame("malformed")>>}

\* C6: when a CONNECTION_CLOSE frame is received the connection is Draining
\* and its draining deadline is now + 3 x PTO as soon as the Write that
\* processed it returns, and every Read after that returns zero bytes and
\* writes no packet.
C6_PeerCloseDrainsSilently ==
    /\ \A typ \in {"initial", "handshake", "short"}, fs \in CloseFrameSeqs : \A pn \in PeerPNs(conn, typ) :
          LET r == ConnWrite(conn, <<Packet(typ, GoodDCID(conn, typ), PeerCID, pn, GoodKey(conn, typ), fs)>>, now)
          IN Processed(r.c.log, "connection_close") # {} =>
                /\ r.c.state = stateDraining
                /\ r.c.drainingTimer = now + 3 * probeTimeout(r.c.recovery)
    /\ hist.peerClosed =>
          /\ conn.drainingTimer # 0
          /\ \A n \in BufSizes :
                LET r == ConnRead(conn, n, now)
                IN r.n = 0 /\ r.err = NoErr /\ r.c.out = <<>>
          /\ \A sp \in Spaces : hist.ccSent[sp] = 0

C6_Witness ==
    /\ hist.peerClosed
    /\ conn.state = stateDraining
    /\ conn.drainingTimer > now
    /\ last.op = "Read" /\ last.from = stateDraining /\ last.n = 0

CallStep(op) == last'.op = op /\ hist'.ops = hist.ops + 1 /\ now' = now

\* C7: Close puts the connection in Draining and stages one
\* CONNECTION_CLOSE frame with the arguments of the first call, which stays
\* staged unchanged; a later Close, and a Close made after a peer's close
\* set the draining timer, changes nothing.
C7_CloseStagesOnce ==
    [][/\ CallStep("Close") =>
            IF conn.closeFrame.set \/ conn.drainingTimer # 0
            THEN conn' = conn
            ELSE /\ conn'.state = stateDraining
                 /\ ~hist.firstClose.set
                 /\ conn' = [conn EXCEPT !.state = stateDraining, !.closeFrame = hist'.firstClose]
       /\ conn'.closeFrame.set => conn'.closeFrame = hist'.firstClose
       /\ conn.closeFrame.set => conn'.closeFrame = conn.closeFrame]_vars

C7_Witness ==
    /\ last.op = "Close" /\ last.from = stateDraining
    /\ hist.firstClose.set /\ last.arg # hist.firstClose.errorCode
    /\ conn.closeFrame = hist.firstClose
    /\ conn.state = stateDraining

\* the failures of Write that end the connection
FatalErrors == {"FrameEncodingError", "StreamStateError", "StreamLimitError", "FinalSizeError",
                errFlowControl, "TransportParameterError", "ProtocolViolation"}

\* C8: when Write meets a connection-fatal protocol failure the connection
\* has a CONNECTION_CLOSE (of the transport kind) staged and is Draining
\* when the call returns.
C8_FatalWriteStagesClose ==
    (last.op = "Write" /\ last.err \in FatalErrors) =>
        /\ conn.closeFrame.set /\ ~conn.closeFrame.application
        /\ conn.state = stateDraining

TotalCloseSent == hist.ccSent[packetSpaceInitial] + hist.ccSent[packetSpaceHandshake] + hist.ccSent[packetSpaceApplication]

\* the close staged by Close has been written and the draining period runs
CloseFlushed == conn.closeFrame.set /\ conn.drainingTimer # 0

LoopIdle(c, t) ==
    /\ Settle(ConnRead(c, FullBuffer, t).c) = c
    /\ Timeout(c, t) = DisarmedTimeout
    /\ Settle(ConnWrite(c, <<>>, t).c) = c

\* C10: after Close, the caller's loop of Read and Write(empty) brings the
\* connection to Closed: as long as it is not Closed, a Read still changes
\* it or a deadline is armed that the clock will pass.
C10_CloseLoopReachesClosed ==
    conn.closeFrame.set =>
        \/ IsClosed(conn)
        \/ \E t \in now..MaxTime : ~LoopIdle(conn, t)

\* the deadlines that are set
Deadlines(c) == {d \in {c.drainingTimer, c.recovery.lossDetectionTimer, c.idleTimer} : d # 0}

\* C11: Timeout() returns the time left until the earliest of the draining,
\* loss-detection and idle deadlines that are set, 0 when that is past, and
\* the disarmed value exactly when the connection is Closed or no deadline
\* is set.
C11_TimeoutIsEarliestDeadline ==
    Timeout(conn, now) = IF IsClosed(conn) \/ Deadlines(conn) = {} THEN DisarmedTimeout
                         ELSE maxInt(0, SetMin(Deadlines(conn)) - now)

FlowWithinLimits(f) == f.sent <= f.maxSend /\ f.recv <= f.maxRecv

\* C13: at all times the connection's flow controller has sent at most
\* max-send and received at most max-recv, and so has the flow controller
\* of every stream.
C13_FlowWithinLimits ==
    FlowWithinLimits(conn.flow) /\ \A st \in conn.streams : FlowWithinLimits(st.flow)

\* the connection has used up its send credit while data of the
\* application is waiting, and has received all that it allows
C13_Witness ==
    /\ conn.flow.sent = conn.flow.maxSend /\ conn.flow.sent > 0
    /\ conn.flow.recv = conn.flow.maxRecv
    /\ \E st \in conn.streams : st.sendBuf # {}

\* C14: a STREAM frame whose offset + length lies beyond the connection's
\* max-recv is rejected with a flow control error, however short it is.
C14_StreamBeyondMaxRecvRejected ==
    IsEstablished(conn) /\ conn.packetNumberSpaces[packetSpaceApplication].opener # NoKey =>
        \A f \in {g \in StreamFrames(conn) : g.typ = "stream"}, pn \in NextPeerPN(conn, "short") :
            f.off + f.len > conn.flow.maxRecv =>
                ConnWrite(conn, <<Packet("short", conn.scid, PeerCID, pn, GoodKey(conn, "short"), <<f>>)>>, now).err = errFlowControl

\* the packets a peer sends a second time: well-formed packets with a
\* packet number this side has received and can still open
DuplicatePackets(c) ==
    UNION {{Packet(typ, c.scid, c.dcid, pn, c.packetNumberSpaces[PacketTypeSpace(typ)].opener, fs) :
               pn \in c.packetNumberSpaces[PacketTypeSpace(typ)].received, fs \in FrameSeqs(c)} :
           typ \in {t \in {"initial", "handshake", "short"} : canDecrypt(c.packetNumberSpaces[PacketTypeSpace(t)])}}

Dropped(log) == {i \in 1..Len(log) : log[i].ev = "packet_dropped"}

\* the state a received packet can touch besides the log: events, flow
\* control, streams, idle timer and what the ACKs to come are built from
SameReceiveState(c, d) ==
    /\ d.events = c.events
    /\ d.flow = c.flow /\ d.streams = c.streams
    /\ d.idleTimer = c.idleTimer
    /\ \A sp \in Spaces :
          /\ d.packetNumberSpaces[sp].ackElicited = c.packetNumberSpaces[sp].ackElicited
          /\ d.packetNumberSpaces[sp].recvPacketNeedAck = c.packetNumberSpaces[sp].recvPacketNeedAck
          /\ d.packetNumberSpaces[sp].received = c.packetNumberSpaces[sp].received

\* C16: a packet whose packet number was already received in its space is
\* dropped: Write takes exactly that packet off the input and returns no
\* error, no frame of it is handled, no event is queued, and flow control,
\* idle timer and ACK state stay as they were.
C16_DuplicateIsDropped ==
    conn.drainingTimer = 0 /\ ~conn.closeFrame.set =>
        \A p \in DuplicatePackets(conn) :
            LET r == ConnWrite(conn, <<p>>, now)
            IN /\ r.n = 1 /\ r.err = NoErr
               /\ ProcessedAny(r.c.log) = {} /\ Dropped(r.c.log) # {}
               /\ SameReceiveState(conn, r.c)

\* a duplicate of a packet that carried a STREAM frame arrives again on a
\* connection with idle timeout, after the clock moved on
C16_Witness ==
    /\ conn.drainingTimer = 0 /\ ~conn.closeFrame.set /\ ~IsClosed(conn)
    /\ conn.idleTimer # 0 /\ conn.idleTimer # now + conn.localParams.MaxIdleTimeout
    /\ conn.streams # {}
    /\ \E p \in DuplicatePackets(conn) : p.typ = "short" /\ Dropped(ConnWrite(conn, <<p>>, now).c.log) # {}

\* packets that cannot be opened: a 0-RTT packet, a packet of a space that
\* has no opener, and a packet sealed with another key than the opener's
UnopenablePackets(c) ==
    {Packet("zerortt", c.scid, c.dcid, 0, NoKey, <<>>)}
    \cup {Packet(typ, c.scid, c.dcid, 0, TLSKey(PacketTypeSpace(typ)), <<Frame("ping")>>) :
             typ \in {t \in {"handshake", "short"} : ~canDecrypt(c.packetNumberSpaces[PacketTypeSpace(t)])}}
    \cup {Packet(typ, c.scid, c.dcid, 0, BadKey, <<Frame("ping")>>) :
             typ \in {t \in {"handshake", "short"} : canDecrypt(c.packetNumberSpaces[PacketTypeSpace(t)])}}

\* C17: Write returns no error for a packet that cannot be opened (0-RTT,
\* no opener for its space, failed unprotection or AEAD): the packet is
\* skipped and the receive state stays as it was.
C17_UnopenableIsSkipped ==
    conn.drainingTimer = 0 /\ ~conn.closeFrame.set =>
        \A p \in UnopenablePackets(conn) :
            LET r == ConnWrite(conn, <<p>>, now)
            IN r.err = NoErr /\ ProcessedAny(r.c.log) = {} /\ SameReceiveState(conn, r.c)

\* long-header packets with a Length field that recvPacketInitial,
\* recvPacketHandshake and recvPacket drop: a wrong destination CID, or a
\* space without opener
DroppedLongPackets(c) ==
    {Packet(typ, "zz", c.dcid, 0, GoodKey(c, typ), <<Frame("ping")>>) :
        typ \in {t \in {"initial", "handshake"} : t = "initial" => c.gotPeerCID}}
    \cup {Packet(typ, c.scid, c.dcid, 0, TLSKey(PacketTypeSpace(typ)), <<Frame("ping")>>) :
             typ \in {t \in {"initial", "handshake"} :
                         /\ ~canDecrypt(c.packetNumberSpaces[PacketTypeSpace(t)])
                         /\ t = "initial" => c.derivedInitialSecrets /\ c.gotPeerCID}}

\* the packets a correct peer sends next, one frame each
NextPackets(c) ==
    UNION {{Packet(typ, GoodDCID(c, typ), PeerCID, pn, GoodKey(c, typ), <<f>>) :
               pn \in PeerPNs(c, typ), f \in {Frame("ping"), CryptoFrame(GoodParams(c))}} :
           typ \in {"initial", "handshake", "short"}}

\* C18: when a packet of a coalesced datagram is dropped (CID mismatch,
\* missing opener), Write takes only that packet off the input and goes on
\* with the packets after it: a packet that is processed when it comes
\* alone is processed behind a dropped packet too.
C18_DropKeepsRestOfDatagram ==
    conn.drainingTimer = 0 /\ ~conn.closeFrame.set =>
        \A p \in DroppedLongPackets(conn), q \in NextPackets(conn) :
            ProcessedAny(ConnWrite(conn, <<q>>, now).c.log) # {} =>
                ProcessedAny(ConnWrite(conn, <<p, q>>, now).c.log) # {}

\* C19: a client that accepted a Retry from RetryCID and then learned
\* another source CID from the server's Initial packet completes the
\* handshake only if the server's retry_source_connection_id is RetryCID
\* and its original_destination_connection_id is the client's first DCID;
\* with any other values Write fails with TRANSPORT_PARAMETER_ERROR.
C19_RetryParamsValidated ==
    [][/\ CallStep("Write")
       /\ conn.isClient /\ conn.didRetry /\ conn.dcid # RetryCID /\ conn.gotPeerCID
       /\ ~conn.handshake.complete /\ conn'.handshake.complete
       => IF /\ conn'.handshake.peerParams.RetrySourceCID = RetryCID
             /\ conn'.handshake.peerParams.OriginalDestinationCID = FirstDCID
          THEN TRUE
          ELSE conn'.state < stateActive /\ last'.err = "TransportParameterError"]_vars

\* the conditions under which a Retry packet p may take effect on c
RetryAllowed(c, p) ==
    c.isClient /\ c.state = stateAttempted /\ ~c.didRetry /\ p.dcid = c.scid /\ p.scid # c.dcid

\* what a Retry packet p that took effect on c has made of it
RetryEffects(c, p, d) ==
    /\ d.dcid = p.scid /\ d.token = p.token /\ d.odcid = c.dcid /\ d.didRetry
    /\ d.packetNumberSpaces[packetSpaceInitial].opener = InitialKey(p.scid)
    /\ d.packetNumberSpaces[packetSpaceInitial].sealer = InitialKey(p.scid)
    /\ d.packetNumberSpaces[packetSpaceInitial].received = {}
    /\ d.packetNumberSpaces[packetSpaceInitial].cryptoSend = {}
    /\ ~d.packetNumberSpaces[packetSpaceInitial].cryptoRecv
    /\ ~d.handshake.started /\ d.handshake.level = 0 /\ ~d.handshake.complete

\* C20: a Retry packet takes effect only on a client in Attempted that
\* accepted no Retry before, when its DCID is the local SCID and its SCID
\* is not the current DCID; then the DCID is the Retry's SCID, the token is
\* stored, the former DCID is the original DCID, the Initial keys come from
\* the new DCID and the Initial space and the TLS session start afresh.
\* Every other Retry is dropped: Write takes it off the input without
\* error and leaves the connection as a Write of nothing would.
C20_RetryOnlyOnce ==
    conn.drainingTimer = 0 /\ ~conn.closeFrame.set =>
        \A p \in {q \in RetryPackets(conn) : q.typ = "retry"} :
            LET r == ConnWrite(conn, <<p>>, now)
            IN IF r.c.didRetry /\ ~conn.didRetry
               THEN RetryAllowed(conn, p) /\ RetryEffects(conn, p, r.c)
               ELSE /\ r.err = NoErr /\ r.n = 1
                    /\ Settle(r.c) = Settle(ConnWrite(conn, <<>>, now).c)

\* a Retry packet that no server of this connection made: empty token or
\* wrong integrity tag
Unauthentic(p) == p.token = "" \/ ~p.tagOK

\* C20, with the refusal of unauthentic Retry packets: as above, but a
\* Retry that meets the four conditions and has an empty token or a wrong
\* integrity tag is not dropped: Write returns the invalid-token error for
\* it, and the connection stays as it was.
C20_RetryOnlyOnceOrRefused ==
    conn.drainingTimer = 0 /\ ~conn.closeFrame.set =>
        \A p \in {q \in RetryPackets(conn) : q.typ = "retry"} :
            LET r == ConnWrite(conn, <<p>>, now)
            IN IF r.c.didRetry /\ ~conn.didRetry
               THEN RetryAllowed(conn, p) /\ ~Unauthentic(p) /\ RetryEffects(conn, p, r.c)
               ELSE IF RetryAllowed(conn, p)
               THEN Unauthentic(p) /\ r.err = errInvalidToken /\ r.n = 0 /\ Settle(r.c) = Settle(conn)
               ELSE /\ r.err = NoErr /\ r.n = 1
                    /\ Settle(r.c) = Settle(ConnWrite(conn, <<>>, now).c)

\* a client that sent its Initial packet has accepted a Retry
C20_Witness ==
    /\ conn.isClient /\ conn.didRetry /\ last.op = "Write" /\ last.err = NoErr
    /\ conn.dcid = RetryCID /\ conn.odcid = FirstDCID /\ conn.token = "tok"
    /\ hist.lastPN[packetSpaceInitial] >= 0

\* C21: a Retry packet with an empty token or a wrong integrity tag, sent
\* to a client that would accept a Retry, makes Write return the
\* invalid-token error and leaves DCID, original DCID, token, retry-done
\* flag, Initial keys, Initial space and TLS session as they were.
C21_UnauthenticRetryRefused ==
    conn.drainingTimer = 0 /\ ~conn.closeFrame.set =>
        \A p \in {q \in RetryPackets(conn) : q.typ = "retry" /\ Unauthentic(q) /\ RetryAllowed(conn, q)} :
            LET r == ConnWrite(conn, <<p>>, now)
            IN /\ r.err = errInvalidToken
               /\ r.c.dcid = conn.dcid /\ r.c.odcid = conn.odcid /\ r.c.token = conn.token
               /\ r.c.didRetry = conn.didRetry
               /\ r.c.packetNumberSpaces[packetSpaceInitial] = conn.packetNumberSpaces[packetSpaceInitial]
               /\ r.c.handshake = conn.handshake

\* a client that sent its Initial packet has refused a Retry
C21_Witness ==
    /\ conn.isClient /\ ~conn.didRetry /\ conn.state = stateAttempted
    /\ last.op = "Write" /\ last.err = errInvalidToken
    /\ hist.lastPN[packetSpaceInitial] >= 0 /\ conn.handshake.started

\* C15: a space is marked ack-elicited, and a Read emits an ACK frame in a
\* space, only if a packet with an ack-eliciting frame was received in that
\* space since the last ACK frame was sent there; packets with nothing but
\* ACK, PADDING and CONNECTION_CLOSE frames never make an ACK go out.
C15_NoAckForAckOnly ==
    [][\A sp \in Spaces :
          /\ conn'.packetNumberSpaces[sp].ackElicited => hist'.elicited[sp]
          /\ CallStep("Read") /\ last'.n > 0 /\ FrameCount(ConnRead(conn, last'.arg, now).c.out, sp, "ack") > 0
                => hist.elicited[sp]]_vars

\* the conditions under which a Version Negotiation packet p may take
\* effect on c
VNAllowed(c, p) ==
    c.isClient /\ c.state = stateAttempted /\ ~c.didVersionNegotiation /\ p.dcid = c.scid /\ p.scid = c.dcid

\* what a Version Negotiation packet p that took effect on c has made of it
VNEffects(c, p, d) ==
    /\ d.version = FirstSupported(p.versions) /\ versionSupported(d.version)
    /\ d.dcid = c.dcid /\ d.didVersionNegotiation
    /\ d.packetNumberSpaces[packetSpaceInitial].received = {}
    /\ d.packetNumberSpaces[packetSpaceInitial].cryptoSend = {}
    /\ ~d.packetNumberSpaces[packetSpaceInitial].cryptoRecv
    /\ ~d.handshake.started /\ d.handshake.level = 0 /\ ~d.handshake.complete
    /\ d.handshake.localParams = c.localParams

VNPackets(c) == {q \in RetryPackets(c) : q.typ = "version_negotiation"}

ShortPackets(c, f) ==
    {Packet("short", c.scid, PeerCID, pn, GoodKey(c, "short"), <<f>>) : pn \in NextPeerPN(c, "short")}

\* the connection takes 1-RTT packets
TakesShort(c) ==
    /\ IsEstablished(c) /\ c.drainingTimer = 0 /\ ~c.closeFrame.set
    /\ canDecrypt(c.packetNumberSpaces[packetSpaceApplication])

\* stream IDs of all four kinds
AnyStreamIDs == 0..3

\* C23: STOP_SENDING fails with a stream-state error exactly for a
\* peer-initiated unidirectional stream and for a locally initiated stream
\* that was not created; for every other stream, an existing locally
\* initiated unidirectional one included, it queues a StreamStopped event.
C23_StopSendingPolicing ==
    TakesShort(conn) =>
        \A id \in AnyStreamIDs : \A p \in ShortPackets(conn, [Frame("stop_sending") EXCEPT !.id = id]) :
            LET r == ConnWrite(conn, <<p>>, now)
                local == isStreamLocal(id, conn.isClient)
            IN IF (~local /\ ~isStreamBidi(id)) \/ (local /\ StreamGet(conn, id) = {})
               THEN r.err = "StreamStateError"
               ELSE r.err = NoErr /\ r.c.events = Append(conn.events, [typ |-> "StreamStopped", id |-> id])

\* STREAM and RESET_STREAM frames of the peer for a stream of this side
LocalStreamFrames(c) ==
    UNION {{StreamFrame(id, 0, 1, FALSE), StreamFrame(id, 1, 2, TRUE),
            [Frame("reset_stream") EXCEPT !.id = id, !.len = 1]} : id \in {LocalBidiStreamID(c), LocalUniStreamID(c)}}

\* the stream f names is not one the peer may send on: a unidirectional
\* stream of this side, or a bidirectional one this side has not opened
NotForPeer(c, f) == ~isStreamBidi(f.id) \/ StreamGet(c, f.id) = {}

\* C24 as claimed: a STREAM or RESET_STREAM frame for a locally initiated
\* unidirectional stream, or for a locally initiated bidirectional stream
\* that is not open, fails with a stream-state error and creates no stream,
\* queues no event and changes no flow control counter.
C24_LocalStreamPolicing ==
    TakesShort(conn) =>
        \A f \in {g \in LocalStreamFrames(conn) : NotForPeer(conn, g)} : \A p \in ShortPackets(conn, f) :
            LET r == ConnWrite(conn, <<p>>, now)
            IN /\ r.err = "StreamStateError"
               /\ r.c.streams = conn.streams /\ r.c.events = conn.events /\ r.c.flow = conn.flow

\* C24, with the order of the tests: as above, but a STREAM frame for a
\* bidirectional stream that is longer than the connection's receive
\* credit fails with a flow control error, the credit being tested before
\* the stream is looked up.
C24_LocalStreamPolicingInOrder ==
    TakesShort(conn) =>
        \A f \in {g \in LocalStreamFrames(conn) : NotForPeer(conn, g)} : \A p \in ShortPackets(conn, f) :
            LET r == ConnWrite(conn, <<p>>, now)
            IN /\ r.err = IF f.typ = "stream" /\ isStreamBidi(f.id) /\ canRecv(conn.flow) < f.len
                           THEN errFlowControl ELSE "StreamStateError"
               /\ r.c.streams = conn.streams /\ r.c.events = conn.events /\ r.c.flow = conn.flow

\* the peer, having sent stream data, has sent a frame for a bidirectional
\* stream this side did not open, and Write refused it
C24_Witness ==
    /\ last.op = "Write" /\ last.err = "StreamStateError"
    /\ TakesShort(conn) /\ StreamGet(conn, LocalBidiStreamID(conn)) = {}
    /\ conn.flow.recv > 0 /\ conn.streams # {}

\* C25: once a packet number space has been dropped, Read emits no packet in
\* it (its last packet number stays what it was) and nothing sent in it is
\* queued again: it has no CRYPTO data to send and no sent or lost record.
C25_DroppedSpaceStaysSilent ==
    [][\A sp \in Spaces : hist.dropped[sp] =>
          /\ hist'.lastPN[sp] = hist.lastPN[sp]
          /\ conn'.recovery.sent[sp] = {} /\ conn'.recovery.lost[sp] = <<>>
          /\ conn'.packetNumberSpaces[sp].cryptoSend = {}]_vars

\* a Read that emitted a datagram after a space in which packets had been sent
\* was dropped
C25_Witness ==
    /\ last.op = "Read" /\ last.n > 0
    /\ \E sp \in Spaces : hist.dropped[sp] /\ hist.lastPN[sp] >= 0

\* the STREAM frames declared lost and not yet taken up again
LostStreamFrames(c) ==
    {c.recovery.lost[packetSpaceApplication][i] : i \in {j \in 1..Len(c.recovery.lost[packetSpaceApplication]) :
                                                          c.recovery.lost[packetSpaceApplication][j].typ = "stream"}}

\* packet number pn of the Application space carries the bytes of f among
\* the packets one Read wrote
Carries(out, pn, f) ==
    \E i \in 1..Len(out) :
        /\ out[i].space = packetSpaceApplication /\ out[i].pn = pn
        /\ \E j \in 1..Len(out[i].frames) :
              /\ out[i].frames[j].typ = "stream" /\ out[i].frames[j].id = f.id
              /\ out[i].frames[j].off = f.off /\ out[i].frames[j].len = f.len /\ out[i].frames[j].fin = f.fin

\* C26: a STREAM frame declared lost is queued again with the same offset,
\* length and FIN flag, and the next packet Read emits in the Application
\* space carries it under a packet number above every one used before.
C26_LostStreamDataResent ==
    \A f \in LostStreamFrames(conn) :
        /\ StreamGet(processLostPackets(conn, packetSpaceApplication), f.id) # {}
        /\ [off |-> f.off, len |-> f.len, fin |-> f.fin] \in TheStream(processLostPackets(conn, packetSpaceApplication), f.id).sendBuf
        /\ \A n \in BufSizes :
              LET r == ConnRead(conn, n, now)
              IN \A pn \in SentPNs(r.c.out, packetSpaceApplication) :
                    r.n > 0 => pn > hist.lastPN[packetSpaceApplication] /\ Carries(r.c.out, pn, f)

\* Read has an Initial packet to write: it writes one into a buffer of the
\* minimum Initial datagram size
WritesInitial(c, t) ==
    /\ ConnRead(c, MinInitialPacketSize, t).n > 0
    /\ SentPNs(ConnRead(c, MinInitialPacketSize, t).c.out, packetSpaceInitial) # {}

\* C27: a datagram a client's Read returns with an Initial packet in it is
\* at least MinInitialPacketSize bytes long, and a Read that has an Initial
\* packet to write into a shorter buffer fails with the short-buffer error
\* and returns no bytes.
C27_ClientInitialIsPadded ==
    conn.isClient =>
        \A n \in ReadSizes(conn) :
            LET r == ConnRead(conn, n, now)
            IN /\ r.n > 0 /\ SentPNs(r.c.out, packetSpaceInitial) # {} => r.n >= MinInitialPacketSize
               /\ WritesInitial(conn, now) /\ n < MinInitialPacketSize => r.n = 0 /\ r.err = errShortBuffer

\* what a failed Read must leave alone: packet numbers, pending ACKs, the
\* CRYPTO and STREAM send buffers, flow control, probes, handshake
\* confirmation and the draining deadline
SendState(c) ==
    [pn |-> [sp \in Spaces |-> c.packetNumberSpaces[sp].nextPacketNumber],
     ack |-> [sp \in Spaces |-> c.packetNumberSpaces[sp].ackElicited],
     crypto |-> [sp \in Spaces |-> c.packetNumberSpaces[sp].cryptoSend],
     streams |-> c.streams, flow |-> c.flow, probes |-> c.recovery.probes,
     confirmed |-> c.handshakeConfirmed, draining |-> c.drainingTimer]

\* C28: a Read that returns the short-buffer error leaves the sending state
\* as it was when the call began to build the packet.
C28_FailedReadChangesNothing ==
    \A n \in ReadSizes(conn) :
        ConnRead(conn, n, now).err = errShortBuffer =>
            SendState(ConnRead(conn, n, now).c) = SendState(doHandshake(conn).c)

\* C29: with an idle timeout, a Read moves the idle deadline, to now plus
\* the timeout, exactly if it sends an ack-eliciting packet and none was sent
\* since a packet was last received; a Write that handles a packet to its
\* end sets the deadline to now plus the timeout, and a Write whose packet is
\* dropped leaves it as it was.
C29_IdleDeadline ==
    conn.localParams.MaxIdleTimeout > 0 =>
        /\ \A n \in BufSizes :
              LET r == ConnRead(conn, n, now)
              IN r.c.idleTimer = IF r.n > 0 /\ SentEliciting(r.c.out) /\ hist.quiet
                                 THEN TimeAdd(now, conn.localParams.MaxIdleTimeout) ELSE conn.idleTimer
        /\ \A d \in IdleDatagrams(conn) :
              LET r == ConnWrite(conn, d, now)
              IN /\ ReceivedAll(r.c.log, r.err) => r.c.idleTimer = TimeAdd(now, conn.localParams.MaxIdleTimeout)
                 /\ Dropped(r.c.log) # {} => r.c.idleTimer = conn.idleTimer

\* s is the beginning of q
IsPrefix(s, q) == Len(s) <= Len(q) /\ \A i \in 1..Len(s) : s[i] = q[i]

\* C30: the events a packet's first frame causes, the StreamComplete of an
\* ACK frame included, are queued before those of the frame after it: what
\* the first frame alone queues is the beginning of what the two frames
\* queue.
C30_EventsInFrameOrder ==
    \A p \in {q \in EventPackets(conn) : Len(q.frames) = 2} :
        LET r == ConnWrite(conn, <<p>>, now)
            r1 == ConnWrite(conn, <<[p EXCEPT !.frames = <<p.frames[1]>>]>>, now)
        IN r.err = NoErr /\ r1.err = NoErr /\ PeerCanSend(conn, p) => IsPrefix(r1.c.events, r.c.events)

\* the bytes the connection has counted for stream id, in a state where no
\* other stream has received anything
CountedOn(c, id) == c.flow.recv

\* no stream was reset, and no stream but id has received anything
OnlyReceiver(c, id) == \A st \in c.streams : ~st.recvReset /\ (st.id # id => st.recvLen = 0)

ResetPacket(c, pn, id, finalSize) ==
    Packet("short", c.scid, PeerCID, pn, GoodKey(c, "short"),
           <<[Frame("reset_stream") EXCEPT !.id = id, !.len = finalSize]>>)

\* C31: a RESET_STREAM with final size F for a stream the connection has
\* counted R bytes on fails with a flow control error when F - R is more
\* than the connection's receive credit; otherwise, when it is accepted, the
\* connection's received count grows by F - R and a StreamReset event is
\* queued.
C31_ResetCountsFinalSize ==
    IsEstablished(conn) /\ conn.packetNumberSpaces[packetSpaceApplication].opener # NoKey
    /\ OnlyReceiver(conn, PeerStreamID(conn)) =>
        \A F \in 0..LocalInitialMaxStreamData, pn \in NextPeerPN(conn, "short") :
            LET R == CountedOn(conn, PeerStreamID(conn))
                w == ConnWrite(conn, <<ResetPacket(conn, pn, PeerStreamID(conn), F)>>, now)
            IN IF F - R > canRecv(conn.flow) THEN w.err = errFlowControl
               ELSE w.err = NoErr =>
                       /\ w.c.flow.recv = conn.flow.recv + (F - R)
                       /\ w.c.events = Append(conn.events, [typ |-> "StreamReset", id |-> PeerStreamID(conn)])

\* C32: a Read writes a HANDSHAKE_DONE frame only on a server, only in a
\* 1-RTT packet and with the state Active, one at most, and only if none
\* went out before or a packet that carried one was declared lost since.
C32_HandshakeDoneOnce ==
    \A n \in BufSizes :
        LET r == ConnRead(conn, n, now)
        IN r.n > 0 /\ DoneCount(r.c.out) > 0 =>
              /\ ~conn.isClient
              /\ r.c.state = stateActive
              /\ DoneCount(r.c.out) = 1
              /\ FrameCount(r.c.out, packetSpaceApplication, "handshake_done") = 1
              /\ ~hist.hsDone

\* a server has sent HANDSHAKE_DONE a second time, after the packet that
\* carried the first was declared lost
C32_Witness ==
    /\ ~conn.isClient /\ hist.hsDone /\ hist.lastPN[packetSpaceApplication] >= kPacketThreshold
    /\ \E p \in conn.recovery.sent[packetSpaceApplication] :
          p.pn > 0 /\ \E j \in 1..Len(p.frames) : p.frames[j].typ = "handshake_done"

\* the text of a value: a number in decimal, a bool as true or false, a
\* string as it is, a byte slice in hexadecimal
ValueText(val) ==
    CASE val.k = "num" -> ToString(val.n)
      [] val.k = "bool" -> FormatBool(val.b)
      [] val.k = "str" -> val.s
      [] val.k = "bytes" -> HexEncodeToString(val.bytes)

RECURSIVE FieldsText(_)
FieldsText(kvs) ==
    IF kvs = <<>> THEN "" ELSE " " \o Head(kvs)[1] \o "=" \o ValueText(Head(kvs)[2]) \o FieldsText(Tail(kvs))

\* the keys of each frame kind in the order the tests of the log expect
\* them (log_test.go)
LogTestKeys(kind) ==
    <<"frame_type">> \o
    CASE kind = "ack" -> <<"ack_delay">>
      [] kind = "reset_stream" -> <<"stream_id", "error_code", "final_size">>
      [] kind = "stop_sending" -> <<"stream_id", "error_code">>
      [] kind = "crypto" -> <<"offset", "length">>
      [] kind = "new_token" -> <<"token">>
      [] kind = "stream" -> <<"stream_id", "offset", "length", "fin">>
      [] kind = "max_data" -> <<"maximum">>
      [] kind = "max_stream_data" -> <<"stream_id", "maximum">>
      [] kind = "max_streams" -> <<"stream_type", "maximum">>
      [] kind = "data_blocked" -> <<"limit">>
      [] kind = "stream_data_blocked" -> <<"stream_id", "limit">>
      [] kind = "streams_blocked" -> <<"stream_type", "limit">>
      [] kind = "connection_close" -> <<"error_space", "error_code", "raw_error_code", "reason", "trigger_frame_type">>
      [] OTHER -> <<>>

\* C33: the text of the log event of a frame is the RFC3339 time, the event
\* type, frame_type=<kind> and then the fields of the kind in their fixed
\* order, each as key=<text of the value>: a number in decimal, a string,
\* a bool or a byte slice as its text, also when that text is empty.
C33_LogEventText ==
    last.op = "LogEvent" =>
        LET e == newLogEventFrame(last.time, last.typ, last.frame)
            kvs == logFrame(last.frame)
        IN /\ last.str = FormatRFC3339(last.time) \o " " \o last.typ \o FieldsText(kvs)
           /\ kvs[1] = <<"frame_type", StrVal(last.frame.kind)>>
           /\ IsPrefix([i \in 1..Len(kvs) |-> kvs[i][1]], LogTestKeys(last.frame.kind))
           /\ Len(kvs) >= Len(LogTestKeys(last.frame.kind)) - 1

\* what only a handled Initial packet may set
CIDState(c) == [dcid |-> c.dcid, odcid |-> c.odcid, localParams |-> c.localParams, gotPeerCID |-> c.gotPeerCID]

\* Initial packets of the peer, and those of anybody else: with another
\* source CID or sealed with a wrong key
InitialPackets(c) ==
    {Packet("initial", GoodDCID(c, "initial"), scid, pn, key, fs) :
        scid \in {PeerCID, RetryCID}, pn \in PeerPNs(c, "initial"),
        key \in {GoodKey(c, "initial"), BadKey}, fs \in FrameSeqs(c)}

\* C34: an Initial packet that is dropped or rejected leaves the
\* destination CID, the original destination CID, the local transport
\* parameters and the peer-CID-learned flag as they were.
C34_DroppedInitialLeavesCIDs ==
    \A p \in InitialPackets(conn) :
        LET r == ConnWrite(conn, <<p>>, now)
        IN PeerCanSend(conn, p) /\ ~ReceivedAll(r.c.log, r.err) => CIDState(r.c) = CIDState(conn)

\* a STREAM frame with the FIN of stream id went out: it is in a packet in
\* flight, among the frames declared lost or acknowledged, or acknowledged
\* to the stream
FinSent(c, id) ==
    LET isFin(f) == f.typ = "stream" /\ f.id = id /\ f.fin
        app == packetSpaceApplication
    IN \/ \E p \in c.recovery.sent[app] : \E j \in 1..Len(p.frames) : isFin(p.frames[j])
       \/ \E j \in 1..Len(c.recovery.lost[app]) : isFin(c.recovery.lost[app][j])
       \/ \E j \in 1..Len(c.recovery.acked[app]) : isFin(c.recovery.acked[app][j])
       \/ \E st \in StreamGet(c, id) : \E r \in st.sendAcked : r.fin

\* the application closed stream id
FinRequested(c, id) == \E st \in StreamGet(c, id) : st.sendFinal >= 0

\* a Read into n bytes returns bytes or changes the connection
ReadActs(c, n, t) == ConnRead(c, n, t).n > 0 \/ Settle(ConnRead(c, n, t).c) # c

\* C35: when the application has closed a stream whose bytes had all been
\* sent, Read after Read leads to a STREAM frame with the FIN of the stream:
\* as long as none went out, a Read does something.
C35_FinIsSent ==
    FinRequested(conn, LocalBidiStreamID(conn)) /\ ~FinSent(conn, LocalBidiStreamID(conn)) =>
        \E n \in BufSizes : ReadActs(conn, n, now)

RECURSIVE SumRecvLen(_)
\* the highest offsets received, summed over a set of streams
SumRecvLen(sts) == IF sts = {} THEN 0 ELSE LET st == CHOOSE x \in sts : TRUE IN st.recvLen + SumRecvLen(sts \ {st})

\* the STREAM frames of the peer with bytes this side has received already
RepeatedFrames(c) ==
    {f \in StreamFrames(c) : f.typ = "stream" /\ \E st \in StreamGet(c, f.id) : f.off + f.len <= st.recvLen}

\* C36: the connection's received count is the sum over the streams of the
\* highest offset received, and a STREAM frame with bytes received before,
\* in a new packet, is accepted and does not change the count.
C36_ReceivedIsSumOfOffsets ==
    /\ conn.flow.recv = SumRecvLen(conn.streams)
    /\ IsEstablished(conn) /\ conn.packetNumberSpaces[packetSpaceApplication].opener # NoKey =>
          \A f \in RepeatedFrames(conn), pn \in NextPeerPN(conn, "short") :
              LET w == ConnWrite(conn, <<Packet("short", conn.scid, PeerCID, pn, GoodKey(conn, "short"), <<f>>)>>, now)
              IN w.err = NoErr /\ w.c.flow.recv = conn.flow.recv

\* C37: at most one StreamComplete event is ever queued for a stream.
C37_OneStreamComplete == \A id \in 0..3 : hist.complete[id] <= 1

\* a stream whose data was declared lost and sent again is complete, its
\* event queued once, and the peer has gone on acknowledging
C37_Witness ==
    /\ hist.lostStream /\ hist.lateAck
    /\ hist.complete[LocalBidiStreamID(conn)] = 1
    /\ StreamSendComplete(TheStream(conn, LocalBidiStreamID(conn)))

\* C38: the frames that follow a CONNECTION_CLOSE frame in a packet are not
\* acted on: a 1-RTT packet with the close frame and one more frame leaves
\* the events, the streams, the flow control, the handshake and the
\* ack-elicited state as the packet with the close frame alone leaves them.
AfterCloseFrames(c) ==
    {Frame("ping"), Frame("handshake_done"),
     StreamFrame(PeerStreamID(c), 0, 1, FALSE),
     [Frame("stop_sending") EXCEPT !.id = LocalBidiStreamID(c)],
     [Frame("max_data") EXCEPT !.len = PeerInitialMaxData + 1]}

ClosePacket(c, pn, rest) ==
    Packet("short", c.scid, PeerCID, pn, GoodKey(c, "short"), <<Frame("connection_close")>> \o rest)

ActedOn(c) ==
    [events |-> c.events, streams |-> c.streams, flow |-> c.flow,
     peerMaxStreamsBidi |-> c.peerMaxStreamsBidi, peerMaxStreamsUni |-> c.peerMaxStreamsUni,
     handshakeConfirmed |-> c.handshakeConfirmed, handshake |-> c.handshake,
     updateMaxData |-> c.updateMaxData,
     ackElicited |-> [sp \in Spaces |-> c.packetNumberSpaces[sp].ackElicited]]

ClosedBy(c, pn, t) ==
    LET r == ConnWrite(c, <<ClosePacket(c, pn, <<>>)>>, t)
    IN /\ c.state < stateDraining
       /\ PeerCanSend(c, ClosePacket(c, pn, <<>>))
       /\ r.err = NoErr /\ r.n = 1 /\ r.c.state = stateDraining

C38_NothingAfterClose ==
    \A pn \in NextPeerPN(conn, "short"), g \in AfterCloseFrames(conn) :
        ClosedBy(conn, pn, now)
            => ActedOn(ConnWrite(conn, <<ClosePacket(conn, pn, <<g>>)>>, now).c)
                   = ActedOn(ConnWrite(conn, <<ClosePacket(conn, pn, <<>>)>>, now).c)

====
